---- MODULE Spec2Model ----
(***************************************************************************)
(* Retrotrade back end (src/bnd/main.py): the portfolio backtest endpoint  *)
(* run_portfolio_backtest with its three backtrader strategies.            *)
(*                                                                         *)
(* The strategies run inside backtrader's Cerebro with the default broker, *)
(* so the model follows the run loop of that engine:                       *)
(*   - every step (one calendar date) the data feeds that have a bar on    *)
(*     that date advance, then the broker runs (orders submitted by the    *)
(*     previous step are checked against cash and filled at the OPEN of    *)
(*     the new bar of their feed), then trades are notified, then the      *)
(*     strategy's next() runs, then the analyzers;                         *)
(*   - Strategy.buy/sell only SUBMIT a market order: cash and position do  *)
(*     not change inside next();                                           *)
(*   - next() is not called before every indicator has its minimum period  *)
(*     on every feed (prenext() runs instead);                             *)
(*   - RSI_SMA divides the average gain by the average loss without a      *)
(*     guard (safediv is off by default).                                  *)
(* Money is in whole currency units, allocations in units of 0.005 %.      *)
(***************************************************************************)
EXTENDS Integers, Sequences, FiniteSets, TLC

----------------------------------------------------------------------------
(* Bounds of the model *)

MaxBars == 6            \* dates of a run over one feed
MaxBarsPortfolio == 4   \* dates of a run over several feeds
MaxBarsGaps == 6        \* dates of a run whose feeds have their own calendars
MaxGaps == 1            \* dates of such a run on which some feed has no bar
RsiPeriod == 2          \* rsi_period of the request (14 by default)
VolumePeriod == 3       \* volume_period of the request (20 by default)
MaxHoldDays == 2        \* largest volume_hold_days of a request (5 by default)
MacdMinPeriod == 2      \* macd_slow + macd_signal - 1 of the request
MaxDate == 3            \* the days a request can name are 1..MaxDate
MaxWorkers == 2         \* max_workers of the executor (10 in line 21)
MaxTicks == 2           \* times the clock is seen to advance
MinutesPerTick == 4     \* minutes between two readings of the clock
MaxClears == 1          \* calls of clear_screening_cache
RsiWindow == 2          \* window of calculate_rsi (14 in lines 459 and 744)
MaxPrices == 4          \* closes handed to calculate_rsi
MaxSize == 2            \* maxsize of the two lru_caches (200 in lines 665, 680)

Volumes == {1, 5}
Strategies == {"RSI", "MACD", "Volume_Spike"}

(* a strategy name the endpoint does not know *)
StrategyNames == Strategies \cup {"Momentum"}

(* the days of start_date and end_date; the request arrives on Today, the
   last day but one *)
Dates == 1..MaxDate
Today == MaxDate - 1

(* Program constants *)
HundredPct == 20000     \* 100.0 % in allocation units of 0.005 %
Tolerance == 2          \* 0.01 % in allocation units
MaxItems == 20
rsi_buy == 30
rsi_sell == 70
volume_multiplier == 2
initial_cash == 100000

Pct(p) == p * (HundredPct \div 100)

(* closing and opening prices a bar can carry, by strategy and number of
   feeds of the run *)
Closes(s, n) == CASE s = "RSI" -> IF n = 1 THEN {25, 50, 100} ELSE {25, 50}
                  [] s = "MACD" -> {25}
                  [] s = "Volume_Spike" -> {25, 50}
Opens == {10, 50}

----------------------------------------------------------------------------
(* Arithmetic helpers *)

Abs(x) == IF x < 0 THEN -x ELSE x
Max(a, b) == IF a >= b THEN a ELSE b

RECURSIVE SumSeq(_)
SumSeq(s) == IF s = <<>> THEN 0 ELSE Head(s) + SumSeq(Tail(s))

(* floor(a * b / c) for a, b >= 0 and c > 0 without leaving 32 bits *)
MulDivFloor(a, b, c) == (a \div c) * b + ((a % c) * b) \div c

(* n1/d1 <= n2/d2 for n >= 0 and d > 0, by the Euclidean algorithm so that
   no product is formed *)
RECURSIVE RatLeq(_, _, _, _)
RatLeq(n1, d1, n2, d2) ==
    LET q1 == n1 \div d1
        q2 == n2 \div d2
        r1 == n1 % d1
        r2 == n2 % d2
    IN  IF q1 # q2 THEN q1 < q2
        ELSE IF r1 = 0 THEN TRUE
        ELSE IF r2 = 0 THEN FALSE
        ELSE RatLeq(d2, r2, d1, r1)

----------------------------------------------------------------------------
(* The request: PortfolioStrategyInput *)

Stock(tk, a) == [ticker |-> tk, allocation |-> a]

(* the stock lists a client may send *)
StockLists ==
    { << Stock("A", Pct(100)) >>,
      << Stock("A", Pct(100) - 1) >>,
      << Stock("A", Pct(100) + 1) >>,
      << Stock("A", Pct(60)), Stock("B", Pct(40)) >>,
      << Stock("A", Pct(60)), Stock("A", Pct(40)) >>,
      << Stock("A", Pct(60)), Stock("B", Pct(40) + 4) >>,
      << Stock("A", Pct(60)), Stock("B", Pct(40) - 4) >>,
      << Stock("A", Pct(60)), Stock("B", Pct(60)) >>,
      << >> }

RECURSIVE SumAllocations(_)
SumAllocations(v) ==
    IF v = <<>> THEN 0 ELSE Head(v).allocation + SumAllocations(Tail(v))

(* Field(..., ge=0, le=100) of PortfolioStock.allocation *)
PortfolioStockValid(st) == st.allocation >= 0 /\ st.allocation <= HundredPct

(* Field(..., min_items=1, max_items=20) of PortfolioStrategyInput.stocks *)
StocksFieldValid(v) ==
    /\ Len(v) >= 1
    /\ Len(v) <= MaxItems
    /\ \A k \in 1..Len(v) : PortfolioStockValid(v[k])

validate_allocations_no_abs(v) == ~ (SumAllocations(v) - HundredPct > Tolerance)

(* the validator raises when abs(total - 100.0) > 0.01 *)
validate_allocations(v) == ~ (Abs(SumAllocations(v) - HundredPct) > Tolerance)

(* allocations = {stock.ticker: stock.allocation for stock in data.stocks}:
   a later entry of the same ticker overwrites an earlier one *)
RECURSIVE AllocationsDict(_)
AllocationsDict(v) ==
    IF v = <<>> THEN << >>
    ELSE LET rest == AllocationsDict(SubSeq(v, 1, Len(v) - 1))
             last == v[Len(v)]
         IN  [tk \in (DOMAIN rest) \cup {last.ticker} |->
                 IF tk = last.ticker THEN last.allocation ELSE rest[tk]]

(* the keys of stock_data in insertion order: one feed per distinct ticker *)
RECURSIVE FeedNames(_)
FeedNames(v) ==
    IF v = <<>> THEN << >>
    ELSE LET rest == FeedNames(SubSeq(v, 1, Len(v) - 1))
             last == v[Len(v)].ticker
         IN  IF \E k \in 1..Len(rest) : rest[k] = last THEN rest
             ELSE Append(rest, last)

SeqRange(s) == { s[k] : k \in 1..Len(s) }

(* the stock lists of the runs whose feeds have calendars of their own *)
GapStockLists == { << Stock("A", Pct(100)), Stock("B", Pct(0)) >> }

(* the requests: volume_hold_days is only read by the volume-spike
   strategy, and is only varied in the requests that trade one stock; the
   dates are only read by the checks of lines 882-885 and by the download,
   so the requests that pass these checks all name the same two days *)
Requests(lists, strategies) ==
    { r \in [stocks : lists, strategy : strategies,
             start_date : Dates, end_date : Dates,
             rsi_buy : {rsi_buy}, rsi_sell : {rsi_sell},
             volume_hold_days : 1..MaxHoldDays] :
        /\ r.volume_hold_days < MaxHoldDays =>
              /\ r.strategy = "Volume_Spike"
              /\ Cardinality({ k \in 1..Len(r.stocks) :
                                 r.stocks[k].allocation > 0 }) = 1
        /\ \/ r.start_date = Today - 1 /\ r.end_date = Today
           \/ r.start_date >= r.end_date
           \/ r.end_date > Today }

----------------------------------------------------------------------------
(* The stock screener: screen_stocks, process_single_stock and the two
   caches *)

(* list(POPULAR_STOCKS.keys()), in the order of the dict *)
Universe == << "B", "A" >>

(* the /screen-stocks requests that can be served at the same time *)
ScreenIds == {1, 2}

(* the filters of process_single_stock, named by the parameter that enables
   them: the two before the metadata lookup and the six after it *)
QuickFilters == << "price", "volume" >>
InfoFilters == << "sector", "market_cap", "pe", "rsi", "macd", "vwap" >>

(* StockScreenerParams: enabled holds the filters that are switched on
   (use_price, use_volume, sector # 'any', use_market_cap, use_pe, use_rsi,
   use_macd, use_vwap); any holds those of use_macd and use_vwap whose
   macd_signal or vwap_position is 'any', so that the indicator is computed
   and nothing is compared *)
Params(enabled, any) == [enabled |-> enabled, any |-> any]

NoFilters == Params({}, {})

ParamSets ==
    { NoFilters,
      Params({"price", "volume", "sector", "market_cap", "pe", "rsi", "macd",
              "vwap"}, {}),
      Params({"volume", "market_cap", "rsi", "macd"}, {"macd"}),
      Params({"price", "sector", "pe", "vwap"}, {}) }

(* What the provider has for a symbol.  bars: the download raises, gives an
   empty frame, one bar, or bars; info: ticker.info raises or answers;
   fails: the filters whose comparison eliminates the symbol when it is
   made; throws: where the evaluation raises, if anywhere: "metrics" is a
   last close or volume that float() or int() refuses (lines 708-709),
   "market_cap" a marketCap of None, which its comparison refuses (line
   733). *)
Symbol(bars, info, fails, throws) ==
    [bars |-> bars, info |-> info, fails |-> fails, throws |-> throws]

Passing == Symbol("bars", "ok", {}, "none")

Markets ==
    { Passing,
      Symbol("raises", "ok", {}, "none"),
      Symbol("empty", "ok", {}, "none"),
      Symbol("one_bar", "ok", {}, "none"),
      Symbol("bars", "ok", {}, "metrics"),
      Symbol("bars", "ok", {}, "market_cap"),
      Symbol("bars", "ok", {"price"}, "none"),
      Symbol("bars", "ok", {"volume", "vwap"}, "none"),
      Symbol("bars", "ok", {"price", "sector"}, "market_cap"),
      Symbol("bars", "ok", {"sector", "rsi"}, "none"),
      Symbol("bars", "ok", {"market_cap", "macd"}, "none"),
      Symbol("bars", "ok", {"pe"}, "none"),
      Symbol("bars", "ok", {"rsi", "vwap"}, "none"),
      Symbol("bars", "ok", {"macd"}, "none"),
      Symbol("bars", "ok", {"vwap"}, "none"),
      Symbol("bars", "raises", {"sector", "market_cap", "pe"}, "none"),
      Symbol("bars", "raises", {"sector", "market_cap", "pe"}, "metrics") }

(* datetime.now().strftime('%H%M') as its four digits; the date in front of
   them is the same at every reading *)
Digits(m) == << (m \div 60) \div 10, (m \div 60) % 10,
                (m % 60) \div 10, (m % 60) % 10 >>

(* get_cache_key: strftime(...)[:-1] + '0' *)
get_cache_key(m) == SubSeq(Digits(m), 1, 3) \o << 0 >>

(* the first reading of the clock: 12:03 *)
FirstMinute == 12 * 60 + 3

(* a cache entry: what lru_cache keeps for the arguments (symbol,
   cache_key); at is the minute at which the call that made it was started,
   old says that this call was started before the last call of
   clear_screening_cache *)
Entry(symbol, key, at, old) ==
    [symbol |-> symbol, key |-> key, at |-> at, old |-> old]

(* the result of a task: what process_single_stock returned ("record" or
   "None"), the filters it evaluated in their order (with "info" for the
   metadata lookup and "raise" for an exception), the minute at which it
   read the clock, and the minute of the call that made the cached bars it
   used, 0 if it downloaded them itself, and the record it returned, if
   any *)
Pending == [ret |-> "pending", trace |-> << >>, at |-> 0, reused |-> 0,
            record |-> << >>]

NewScreen(params) ==
    [pc |-> "idle", params |-> params,
     results |-> [sym \in SeqRange(Universe) |-> Pending],
     response |-> << >>]

(* an lru_cache is the sequence of its entries, the least recently used
   first *)
NoCaches == [data |-> << >>, info |-> << >>]

NoPool == [queue |-> << >>, threads |-> << >>, idle |-> 0]

IdleClearer == [pc |-> "idle", calls |-> 0]

(* no indicator is being computed *)
NoCall == [pc |-> "none", prices |-> << >>, ret |-> [num |-> 0, den |-> 1]]

----------------------------------------------------------------------------
(* State *)

VARIABLES
    pc,           \* where the request is: "validate", "configure",
                  \* "download", "run", "done", "rejected", "error"
    calendar,     \* "shared": every feed has a bar on every date of the run;
                  \* "own": a feed may lack the bar of a date
    request,      \* the PortfolioStrategyInput as received
    fetched,      \* the yf.download calls made so far, with their outcomes
    datas,        \* names of the data feeds of cerebro, in adddata order
    allocations,  \* the allocations dict passed to the strategy
    t,            \* steps of the run loop started so far
    gaps,         \* steps so far on which some feed had no bar
    feed,         \* per feed: bars delivered and the values read from them
    broker,       \* cash, positions, submitted and pending orders
    strat,        \* the strategy's counters, per feed
    analyzers,    \* TradeAnalyzer and DrawDown
    obs,          \* what the last broker run and the last next() did
    result,       \* the response
    now,          \* the clock, in minutes since midnight
    market,       \* what the market-data provider has for every symbol
    screens,      \* the screening requests: parameters, results, response
    pool,         \* the executor: its work queue, its threads, its
                  \* semaphore of idle threads
    caches,       \* the lru_cache of get_cached_stock_data and the one of
                  \* get_cached_ticker_info
    clearer,      \* the handler of /clear-cache
    calc          \* a call of calculate_rsi: its arguments and what it
                  \* returned

screenVars == << now, market, screens, pool, caches, clearer, calc >>

backtestVars == << pc, calendar, request, fetched, datas, allocations, t,
                  gaps, feed, broker, strat, analyzers, obs, result >>

vars == << pc, calendar, request, fetched, datas, allocations, t, gaps, feed,
           broker, strat, analyzers, obs, result, screenVars >>

NoResult == [status |-> "none"]

(* obs records, for the properties, what the program did on the way: the
   orders the last next() created (with the cash each sizing read), the
   fills, margin rejections and trade notifications of the last broker run,
   which of prenext()/next() ran last, and per feed the sides of all its
   fills, the bars on which its position last left 0 and returned to 0, and
   the pnl of each of its closed trades *)
EmptyObs == [orders |-> << >>, fills |-> << >>, trades |-> << >>,
             margins |-> << >>, ran |-> "none", sides |-> << >>,
             opened_at |-> << >>, closed_at |-> << >>, pnls |-> << >>]

(* no screening request is served *)
NoScreening ==
    /\ now = FirstMinute
    /\ market = [sym \in SeqRange(Universe) |-> Passing]
    /\ screens = [r \in ScreenIds |-> NewScreen(NoFilters)]
    /\ pool = NoPool
    /\ caches = NoCaches
    /\ clearer = IdleClearer

InitRest ==
    /\ NoScreening
    /\ calc = NoCall
    /\ fetched = << >>
    /\ datas = << >>
    /\ allocations = << >>
    /\ t = 0
    /\ gaps = 0
    /\ feed = << >>
    /\ broker = [cash |-> 0, positions |-> << >>, submitted |-> << >>,
                 pending |-> << >>]
    /\ strat = << >>
    /\ analyzers = [total |-> 0, open |-> 0, closed |-> 0, won |-> 0,
                    lost |-> 0, maxvalue |-> 0, value |-> 0,
                    maxdd |-> [num |-> 0, den |-> 1]]
    /\ obs = EmptyObs
    /\ result = NoResult

Init ==
    /\ pc = "validate"
    /\ request \in Requests(StockLists, StrategyNames)
    /\ calendar = "shared"
    /\ InitRest

(* Request validation by pydantic, before the endpoint body runs: a request
   that fails it is answered 422 and nothing else happens. *)
Validate ==
    /\ pc = "validate"
    /\ IF StocksFieldValid(request.stocks) /\ validate_allocations(request.stocks)
       THEN /\ pc' = "configure"
            /\ result' = result
       ELSE /\ pc' = "rejected"
            /\ result' = [status |-> "422"]
    /\ UNCHANGED << request, calendar, fetched, datas, allocations, t, gaps,
                    feed, broker, strat, analyzers, obs >>
    /\ UNCHANGED screenVars

----------------------------------------------------------------------------
(* The checks of the endpoint body before anything is downloaded: lines
   879-918 of run_portfolio_backtest *)

(* if start_dt >= end_dt: raise HTTPException(400) *)
StartBeforeEnd_or_equal(r) == r.start_date <= r.end_date

StartBeforeEnd(r) == r.start_date < r.end_date

(* if end_dt > datetime.now(): raise HTTPException(400); end_dt is the
   midnight that starts the end date *)
EndNotInFuture(r) == r.end_date <= Today

(* the if/elif chain over data.strategy; its else raises HTTPException(400) *)
KnownStrategy(s) == s = "RSI" \/ s = "MACD" \/ s = "Volume_Spike"

(* the HTTPException raised by the checks, "none" when they pass *)
ConfigurationError(r) ==
    IF ~ StartBeforeEnd(r) THEN "Start date must be before end date"
    ELSE IF ~ EndNotInFuture(r) THEN "End date cannot be in the future"
    ELSE IF ~ KnownStrategy(r.strategy) THEN "Unknown strategy"
    ELSE "none"

Configure ==
    /\ pc = "configure"
    /\ IF ConfigurationError(request) = "none"
       THEN /\ pc' = "download"
            /\ result' = result
       ELSE /\ pc' = "error"
            /\ result' = [status |-> "400",
                          detail |-> ConfigurationError(request)]
    /\ UNCHANGED << request, calendar, fetched, datas, allocations, t, gaps,
                    feed, broker, strat, analyzers, obs >>
    /\ UNCHANGED screenVars

----------------------------------------------------------------------------
(* Set-up of the run: lines 878-957 of run_portfolio_backtest *)

FlatPosition == [size |-> 0, cost |-> 0]

NewFeed == [len |-> 0, closes |-> << >>, volumes |-> << >>,
            rel |-> "nan", prevrel |-> "nan", open |-> 0, fresh |-> FALSE]

NewCounters == [trade_counts |-> 0, winning_trades |-> 0, losing_trades |-> 0,
                hold_counters |-> 0]

(* what yf.download can give for a stock: a frame with bars, an empty
   frame, or an exception *)
Outcomes == {"bars", "empty", "raises"}

Fetch(tk, outcome) == [ticker |-> tk, outcome |-> outcome]

DownloadRaises_never(outcome) == FALSE

(* lines 929-936: an empty frame raises HTTPException(404) inside the try,
   and the except clause answers that and every exception of the download
   with HTTPException(400), which ends the request *)
DownloadRaises(outcome) == outcome # "bars"

(* for stock in data.stocks: the downloads made, which end with the first
   one that raises *)
RECURSIVE DownloadLoop(_, _, _)
DownloadLoop(stocks, outs, k) ==
    IF k > Len(stocks) THEN << >>
    ELSE << Fetch(stocks[k].ticker, outs[k]) >>
         \o (IF DownloadRaises(outs[k]) THEN << >>
             ELSE DownloadLoop(stocks, outs, k + 1))

HasBars(x) == x.outcome = "bars"

(* the keys of stock_data when the loop is left: stock_data[stock.ticker]
   = df is only reached with bars *)
StockData(fetches) == FeedNames(SelectSeq(fetches, HasBars))

(* cerebro.adddata for every key of stock_data, broker.set_cash, the
   analyzers *)
SetUp(names) ==
    /\ datas' = names
    /\ allocations' = AllocationsDict(request.stocks)
    /\ feed' = [i \in SeqRange(names) |-> NewFeed]
    /\ broker' = [cash |-> initial_cash,
                  positions |-> [i \in SeqRange(names) |-> FlatPosition],
                  submitted |-> << >>, pending |-> << >>]
    /\ strat' = [i \in SeqRange(names) |-> NewCounters]
    /\ obs' = [EmptyObs EXCEPT
                 !.sides = [i \in SeqRange(names) |-> << >>],
                 !.opened_at = [i \in SeqRange(names) |-> 0],
                 !.closed_at = [i \in SeqRange(names) |-> 0],
                 !.pnls = [i \in SeqRange(names) |-> << >>]]

(* the download loop with the given downloads made *)
Downloaded(fetches) ==
    /\ fetched' = fetches
    /\ IF \E k \in 1..Len(fetches) : DownloadRaises(fetches[k].outcome)
       THEN /\ pc' = "error"
            /\ result' = [status |-> "400",
                          detail |-> "Failed to download data"]
            /\ UNCHANGED << datas, allocations, feed, broker, strat, obs >>
       ELSE /\ pc' = "run"
            /\ result' = result
            /\ SetUp(StockData(fetches))

(* yf.download for every stock, then the set-up of cerebro; a stock without
   bars aborts the request *)
Download ==
    /\ pc = "download"
    /\ \E outs \in [1..Len(request.stocks) -> Outcomes] :
          Downloaded(DownloadLoop(request.stocks, outs, 1))
    /\ UNCHANGED << request, calendar, t, gaps, analyzers >>
    /\ UNCHANGED screenVars

----------------------------------------------------------------------------
(* Indicators *)

(* bars a feed must have delivered before the strategy's next() is called *)
MinPeriod(s) ==
    CASE s = "RSI" -> RsiPeriod + 1
      [] s = "MACD" -> MacdMinPeriod
      [] s = "Volume_Spike" -> VolumePeriod

(* values of a feed's past that the strategy's indicator reads *)
ClosesKept(s) == IF s = "RSI" THEN RsiPeriod + 1 ELSE 1
VolumesKept(s) == IF s = "Volume_Spike" THEN VolumePeriod ELSE 0

LastN(s, n) == IF Len(s) <= n THEN s ELSE SubSeq(s, Len(s) - n + 1, Len(s))

RECURSIVE UpSum(_)
UpSum(c) == IF Len(c) < 2 THEN 0
            ELSE Max(c[2] - c[1], 0) + UpSum(Tail(c))

RECURSIVE DownSum(_)
DownSum(c) == IF Len(c) < 2 THEN 0
              ELSE Max(c[1] - c[2], 0) + DownSum(Tail(c))

(* RSI_SMA has a value once period + 1 closes are there *)
RsiDefined(c) == Len(c) >= RsiPeriod + 1

(* rs = maup / madown raises ZeroDivisionError when no close of the window
   is below its predecessor *)
RsiRaises(c) == RsiDefined(c) /\ DownSum(c) = 0

(* rsi = 100 - 100 / (1 + rs) = 100 * up / (up + down) *)
RsiBelow(c, level) == 100 * UpSum(c) < level * (UpSum(c) + DownSum(c))
RsiAbove(c, level) == 100 * UpSum(c) > level * (UpSum(c) + DownSum(c))

(* d.volume[0] > volume_sma[0] * volume_multiplier *)
VolumeSpike(v) ==
    Len(v) >= VolumePeriod /\
    v[Len(v)] * VolumePeriod > SumSeq(v) * volume_multiplier

(* The MACD line against the signal line on one bar: "gt", "eq", "lt", or
   "nan" while the signal line has no value yet.  A comparison with nan is
   false. *)
Rels == {"lt", "eq", "gt"}
MacdGT(r) == r = "gt"
MacdLT(r) == r = "lt"
MacdLE_not_greater(r) == r # "gt"
MacdLE(r) == r \in {"lt", "eq"}
MacdGE(r) == r \in {"gt", "eq"}
CrossUp(cur, prev) == MacdGT(cur) /\ MacdLE(prev)
CrossDown(cur, prev) == MacdLT(cur) /\ MacdGE(prev)

----------------------------------------------------------------------------
(* The broker (backtrader's default BackBroker: no commission, no slippage,
   checksubmit on, orders filled at the next bar's open) *)

Order(d, isbuy, size, price, dt) ==
    [data |-> d, isbuy |-> isbuy, size |-> size, price |-> price, dt |-> dt]

Signed(o) == IF o.isbuy THEN o.size ELSE 0 - o.size

(* Position.update(size, price): the new position and the parts of the
   operation that opened and that closed; cost is size * average price *)
PositionUpdate(pos, size, price) ==
    LET old == pos.size
        new == pos.size + size
    IN  IF new = 0
        THEN [size |-> 0, cost |-> 0, opened |-> 0, closed |-> size]
        ELSE IF old = 0
        THEN [size |-> new, cost |-> Abs(size) * price,
              opened |-> size, closed |-> 0]
        ELSE IF (old > 0) = (size > 0)
        THEN [size |-> new, cost |-> pos.cost + Abs(size) * price,
              opened |-> size, closed |-> 0]
        ELSE IF (old > 0) = (new > 0)
        THEN [size |-> new,
              cost |-> pos.cost - (pos.cost * Abs(size)) \div Abs(old),
              opened |-> 0, closed |-> size]
        ELSE [size |-> new, cost |-> Abs(new) * price,
              opened |-> new, closed |-> 0 - old]

(* Strategy.buy / Strategy.sell: the order is handed to the broker, which
   queues it; nothing is filled and no cash moves *)
Submit(b, o) == [b EXCEPT !.submitted = Append(@, o)]

(* BackBroker.check_submitted: each submitted order is executed on a copy of
   the cash and of its position at the price it was created with; it is
   accepted when the cash left is not negative, margin-rejected otherwise.
   The cash of the copy carries over to the next order either way. *)
RECURSIVE CheckSubmitted(_, _, _, _)
CheckSubmitted(orders, cash, positions, out) ==
    IF orders = << >> THEN out
    ELSE LET o == Head(orders)
             u == PositionUpdate(positions[o.data], Signed(o), o.price)
             c == cash - u.closed * o.price - u.opened * o.price
             p == [positions EXCEPT ![o.data] = [size |-> u.size, cost |-> u.cost]]
         IN  CheckSubmitted(Tail(orders), c, p,
                 IF c >= 0
                 THEN [out EXCEPT !.accepted = Append(@, o)]
                 ELSE [out EXCEPT !.margins = Append(@, o)])

(* BackBroker._execute of one order at price, given the update u the order
   asks of the position and the part of it that opens: the closing part
   always executes, the opening part only if the cash stays non-negative *)
Executed(cash, pos, price, u, opened, closedCost) ==
    [cash |-> cash - u.closed * price - opened * price,
     pos |-> IF u.closed + opened = 0 THEN pos
             ELSE [size |-> PositionUpdate(pos, u.closed + opened, price).size,
                   cost |-> PositionUpdate(pos, u.closed + opened, price).cost],
     execsize |-> u.closed + opened,
     closed |-> u.closed,
     opened |-> opened,
     margin |-> u.opened # 0 /\ opened = 0,
     \* profitandloss(-closed, position.price, price)
     pnl |-> IF u.closed < 0 THEN Abs(u.closed) * price - closedCost
             ELSE closedCost - Abs(u.closed) * price]

ExecuteUpdate_without_margin_check(cash, pos, price, u) ==
    Executed(cash, pos, price, u, u.opened,
             IF pos.size = 0 THEN 0
             ELSE (pos.cost * Abs(u.closed)) \div Abs(pos.size))

ExecuteUpdate(cash, pos, price, u) ==
    Executed(cash, pos, price, u,
             IF cash - u.closed * price - u.opened * price >= 0
             THEN u.opened ELSE 0,
             IF pos.size = 0 THEN 0
             ELSE (pos.cost * Abs(u.closed)) \div Abs(pos.size))

Execute_debits_created_price(cash, pos, o, price) ==
    LET u == PositionUpdate(pos, Signed(o), price)
        cashOpened == cash - (u.closed + u.opened) * o.price
        closedCost == IF pos.size = 0 THEN 0
                      ELSE (pos.cost * Abs(u.closed)) \div Abs(pos.size)
    IN  [cash |-> cashOpened,
         pos |-> [size |-> u.size, cost |-> u.cost],
         execsize |-> u.closed + u.opened,
         closed |-> u.closed,
         opened |-> u.opened,
         margin |-> FALSE,
         pnl |-> IF u.closed < 0 THEN Abs(u.closed) * price - closedCost
                 ELSE closedCost - Abs(u.closed) * price]

Execute(cash, pos, o, price) ==
    ExecuteUpdate(cash, pos, price, PositionUpdate(pos, Signed(o), price))

(* the broker's state after the execution e of order o at the open of its
   feed.  The Trade of a feed follows its position: a trade opens when the
   position leaves 0 and closes, with the profit of the closed part, when it
   returns to 0. *)
Filled(x, o, price, pos, e) ==
    [x EXCEPT
       !.cash = e.cash,
       !.positions[o.data] = e.pos,
       !.fills = IF e.execsize = 0 THEN @
                 ELSE Append(@, [data |-> o.data, isbuy |-> o.isbuy,
                                 size |-> e.execsize, price |-> price,
                                 cash_before |-> x.cash,
                                 cash_after |-> e.cash,
                                 pos_before |-> pos.size,
                                 pos_after |-> e.pos.size]),
       !.margins = IF e.margin THEN Append(@, o) ELSE @,
       !.trades = @ \o (IF e.closed # 0 /\ pos.size + e.closed = 0
                        THEN << [data |-> o.data, kind |-> "closed",
                                 pnl |-> e.pnl] >>
                        ELSE << >>)
                    \o (IF e.opened # 0 /\ pos.size + e.closed = 0
                        THEN << [data |-> o.data, kind |-> "opened",
                                 pnl |-> 0] >>
                        ELSE << >>)]

TryExecMarket_at_created_price(x, o, f) ==
    IF f[o.data].len <= o.dt
    THEN [x EXCEPT !.pending = Append(@, o)]
    ELSE Filled(x, o, o.price, x.positions[o.data],
                Execute(x.cash, x.positions[o.data], o, o.price))

(* BackBroker._try_exec_market: a market order is filled at the open of the
   current bar of its feed once that feed has a bar after the one the order
   was created on; until then it stays pending *)
TryExecMarket(x, o, f) ==
    IF f[o.data].len <= o.dt
    THEN [x EXCEPT !.pending = Append(@, o)]
    ELSE Filled(x, o, f[o.data].open, x.positions[o.data],
                Execute(x.cash, x.positions[o.data], o, f[o.data].open))

(* BackBroker.next, the loop over the pending orders *)
RECURSIVE TryExec(_, _, _)
TryExec(orders, f, x) ==
    IF orders = << >> THEN x
    ELSE TryExec(Tail(orders), f, TryExecMarket(x, Head(orders), f))

(* BackBroker.next *)
BrokerNext(b, f) ==
    LET chk == CheckSubmitted(b.submitted, b.cash, b.positions,
                              [accepted |-> << >>, margins |-> << >>])
    IN  TryExec(b.pending \o chk.accepted, f,
                [cash |-> b.cash, positions |-> b.positions,
                 pending |-> << >>, fills |-> << >>,
                 margins |-> chk.margins, trades |-> << >>])

(* BackBroker.getvalue: cash plus every position at the last close of its
   feed *)
RECURSIVE PositionsValue(_, _, _)
PositionsValue(names, positions, f) ==
    IF names = << >> THEN 0
    ELSE LET d == Head(names)
         IN  (IF f[d].len = 0 THEN 0
              ELSE positions[d].size * f[d].closes[Len(f[d].closes)])
             + PositionsValue(Tail(names), positions, f)

GetValue(b, f, names) == b.cash + PositionsValue(names, b.positions, f)

----------------------------------------------------------------------------
(* Notifications *)

(* notify_trade of the portfolio strategies: a closed trade is counted for
   its feed, as a win when trade.pnl > 0 and as a loss otherwise *)
notify_trade(st, ev) ==
    IF ev.kind = "closed"
    THEN [st EXCEPT
            ![ev.data].trade_counts = @ + 1,
            ![ev.data].winning_trades = IF ev.pnl > 0 THEN @ + 1 ELSE @,
            ![ev.data].losing_trades = IF ev.pnl > 0 THEN @ ELSE @ + 1]
    ELSE st

(* TradeAnalyzer.notify_trade: total counts a trade when it opens; a closed
   trade is won when its pnl is >= 0 and lost otherwise *)
TradeAnalyzerNotify(a, ev) ==
    IF ev.kind = "opened"
    THEN [a EXCEPT !.total = @ + 1, !.open = @ + 1]
    ELSE [a EXCEPT !.open = @ - 1, !.closed = @ + 1,
                   !.won = IF ev.pnl >= 0 THEN @ + 1 ELSE @,
                   !.lost = IF ev.pnl >= 0 THEN @ ELSE @ + 1]

RECURSIVE NotifyStrategy(_, _)
NotifyStrategy(st, evs) ==
    IF evs = << >> THEN st
    ELSE NotifyStrategy(notify_trade(st, Head(evs)), Tail(evs))

RECURSIVE NotifyAnalyzer(_, _)
NotifyAnalyzer(a, evs) ==
    IF evs = << >> THEN a
    ELSE NotifyAnalyzer(TradeAnalyzerNotify(a, Head(evs)), Tail(evs))

(* DrawDown.notify_fund *)
DrawDownNotifyFund(a, value) ==
    [a EXCEPT !.value = value, !.maxvalue = Max(@, value)]

RECURSIVE TrackPnls(_, _)
TrackPnls(pnls, evs) ==
    IF evs = << >> THEN pnls
    ELSE TrackPnls(IF Head(evs).kind = "closed"
                   THEN [pnls EXCEPT ![Head(evs).data] = Append(@, Head(evs).pnl)]
                   ELSE pnls,
                   Tail(evs))

(* the record of the fills of a feed: their sides, and the bar of the feed
   on which its position last left 0 and last returned to 0 *)
RECURSIVE TrackFills(_, _, _)
TrackFills(o, fills, f) ==
    IF fills = << >> THEN o
    ELSE LET fl == Head(fills)
         IN  TrackFills(
               [o EXCEPT
                  !.sides[fl.data] = Append(@, IF fl.isbuy THEN "buy" ELSE "sell"),
                  !.opened_at[fl.data] =
                      IF fl.pos_before = 0 /\ fl.pos_after # 0
                      THEN f[fl.data].len ELSE @,
                  !.closed_at[fl.data] =
                      IF fl.pos_before # 0 /\ fl.pos_after = 0
                      THEN f[fl.data].len ELSE @],
               Tail(fills), f)

----------------------------------------------------------------------------
(* The strategies' next().  z carries what the loop over the feeds reads
   and writes: the feeds f, the broker b, the strategy's counters st, and
   the log of the orders created. *)

LastClose(f, d) == f[d].closes[Len(f[d].closes)]

buy_filled_at_once(b, f, d, size) ==
    [b EXCEPT !.cash = @ - size * LastClose(f, d),
              !.positions[d] = [size |-> @.size + size,
                                cost |-> @.cost + size * LastClose(f, d)]]

(* self.buy(data=d, size=size): a market order created at the current close
   of d is submitted to the broker *)
buy(b, f, d, size) ==
    Submit(b, Order(d, TRUE, size, LastClose(f, d), f[d].len))

sell_credited_at_once(b, f, d, size) ==
    [b EXCEPT !.cash = @ + size * LastClose(f, d),
              !.positions[d] = [size |-> 0, cost |-> 0]]

(* self.sell(data=d, size=pos.size): Strategy.sell submits abs(size) *)
sell(b, f, d, size) ==
    Submit(b, Order(d, FALSE, Abs(size), LastClose(f, d), f[d].len))

(* allocation = self.params.allocations.get(d._name, 0) / 100.0 *)
AllocationOf(d) == IF d \in DOMAIN allocations THEN allocations[d] ELSE 0

(* size = int(available_cash * allocation / d.close[0]) *)
OrderSize(available_cash, f, d) ==
    MulDivFloor(available_cash, AllocationOf(d), HundredPct) \div LastClose(f, d)

LogOrder(z, d, isbuy, size) ==
    Append(z.log, [data |-> d, isbuy |-> isbuy, size |-> size,
                   cash_seen |-> z.b.cash, pos_seen |-> z.b.positions[d].size])

BuySized(z, d) ==
    LET available_cash == z.b.cash
        size == OrderSize(available_cash, z.f, d)
    IN  IF size > 0
        THEN [z EXCEPT !.b = buy(z.b, z.f, d, size),
                       !.log = LogOrder(z, d, TRUE, size)]
        ELSE z

SellAll(z, d) ==
    [z EXCEPT !.b = sell(z.b, z.f, d, z.b.positions[d].size),
              !.log = LogOrder(z, d, FALSE, Abs(z.b.positions[d].size))]

(* PortfolioRSIStrategy.next, the body of the loop for feed d *)
RSINext(z, d) ==
    IF z.b.positions[d].size = 0
    THEN IF RsiBelow(z.f[d].closes, request.rsi_buy) THEN BuySized(z, d)
         ELSE z
    ELSE IF RsiAbove(z.f[d].closes, request.rsi_sell) THEN SellAll(z, d)
         ELSE z

(* MACDStrategy.next, the single-instrument variant: what it does on a bar
   with the given position and MACD lines *)
MACDStrategyNext(position, cur, prev) ==
    IF position = 0
    THEN IF CrossUp(cur, prev) THEN "buy" ELSE "hold"
    ELSE IF CrossDown(cur, prev) THEN "sell" ELSE "hold"

(* PortfolioMACDStrategy.next, the body of the loop for feed d *)
MACDNext(z, d) ==
    IF z.b.positions[d].size = 0
    THEN IF z.f[d].len > 1 /\ CrossUp(z.f[d].rel, z.f[d].prevrel)
         THEN BuySized(z, d) ELSE z
    ELSE IF z.f[d].len > 1 /\ CrossDown(z.f[d].rel, z.f[d].prevrel)
         THEN SellAll(z, d) ELSE z

(* PortfolioVolumeSpikeStrategy.next, the body of the loop for feed d *)
VolumeSpikeNext(z, d) ==
    IF z.b.positions[d].size = 0
    THEN IF VolumeSpike(z.f[d].volumes) /\ OrderSize(z.b.cash, z.f, d) > 0
         THEN [BuySized(z, d) EXCEPT !.st[d].hold_counters = 0]
         ELSE z
    ELSE LET z1 == [z EXCEPT !.st[d].hold_counters = @ + 1]
         IN  IF z1.st[d].hold_counters >= request.volume_hold_days
             THEN [SellAll(z1, d) EXCEPT !.st[d].hold_counters = 0]
             ELSE z1

NextOne(z, d) ==
    CASE request.strategy = "RSI" -> RSINext(z, d)
      [] request.strategy = "MACD" -> MACDNext(z, d)
      [] request.strategy = "Volume_Spike" -> VolumeSpikeNext(z, d)

(* for i, d in enumerate(self.datas): the feeds in cerebro's order *)
RECURSIVE NextLoop(_, _)
NextLoop(z, names) ==
    IF names = << >> THEN z
    ELSE NextLoop(NextOne(z, Head(names)), Tail(names))

(* Strategy._getminperstatus: next() runs once every feed has delivered the
   minimum period of the indicators, prenext() (which does nothing) before *)
MinPeriodReached(f) ==
    \A d \in DOMAIN f : f[d].len >= MinPeriod(request.strategy)

(* Strategy._oncepost: prenext() or next() *)
StrategyStep(z) == IF MinPeriodReached(z.f) THEN NextLoop(z, datas) ELSE z

(* DrawDown.next: drawdown = 100 * (maxvalue - value) / maxvalue, kept as
   the fraction (maxvalue - value) / maxvalue; max.drawdown is the largest *)
DrawDownNext(a) ==
    LET cur == [num |-> a.maxvalue - a.value, den |-> a.maxvalue]
    IN  [a EXCEPT !.maxdd =
            IF cur.num <= 0 \/ RatLeq(cur.num, cur.den, @.num, @.den)
            THEN @ ELSE cur]

----------------------------------------------------------------------------
(* One step of cerebro's run loop (Cerebro._runonce): the feeds that have a
   bar on the date advance, the broker runs, the trades and the fund value
   are notified, the strategy's prenext() or next() runs, the analyzers'
   next() runs. *)

NoBar == [close |-> 0, volume |-> 0, rel |-> "nan", open |-> 0, has |-> FALSE]

HasOrder(d) ==
    \/ \E k \in 1..Len(broker.submitted) : broker.submitted[k].data = d
    \/ \E k \in 1..Len(broker.pending) : broker.pending[k].data = d

(* a feed with allocation 0 is never ordered on (size is 0, lines 327-329,
   381-383, 433-436) and never held, so nothing but the RSI reads its bars *)
Traded(d) == allocations[d] > 0

(* the bars feed d may deliver on the next date; the open is only drawn when
   the broker will read it, the volume and the MACD lines only under the
   strategy that reads them *)
BarSet(d) ==
    { [close |-> c, volume |-> v, rel |-> r, open |-> o, has |-> TRUE] :
        c \in IF request.strategy = "RSI" \/ Traded(d)
              THEN Closes(request.strategy, Len(datas)) ELSE {25},
        v \in IF request.strategy = "Volume_Spike"
              THEN (IF Traded(d) THEN Volumes ELSE {1}) ELSE {0},
        r \in IF request.strategy = "MACD" /\ feed[d].len + 1 >= MacdMinPeriod
              THEN (IF Traded(d) THEN Rels ELSE {"eq"}) ELSE {"nan"},
        o \in IF HasOrder(d) THEN Opens ELSE {0} }
    \cup (IF calendar = "own" /\ gaps < MaxGaps THEN {NoBar} ELSE {})

RECURSIVE BarFns(_)
BarFns(names) ==
    IF names = << >> THEN { << >> }
    ELSE { (Head(names) :> b) @@ g : b \in BarSet(Head(names)),
                                     g \in BarFns(Tail(names)) }

AdvanceFeed(fd, bar) ==
    IF ~ bar.has THEN [fd EXCEPT !.fresh = FALSE, !.open = 0]
    ELSE [len |-> fd.len + 1,
          closes |-> LastN(Append(fd.closes, bar.close),
                           ClosesKept(request.strategy)),
          volumes |-> LastN(Append(fd.volumes, bar.volume),
                            VolumesKept(request.strategy)),
          rel |-> bar.rel,
          prevrel |-> fd.rel,
          open |-> bar.open,
          fresh |-> TRUE]

(* the dates of the run *)
Horizon ==
    CASE calendar = "own" -> MaxBarsGaps
      [] calendar = "shared" /\ Len(datas) = 1 -> MaxBars
      [] OTHER -> MaxBarsPortfolio

CerebroStep ==
    /\ pc = "run"
    /\ t < Horizon
    /\ \E bars \in BarFns(datas) :
         LET names == SeqRange(datas)
             f == [d \in names |-> AdvanceFeed(feed[d], bars[d])]
             x == BrokerNext(broker, f)
             b1 == [cash |-> x.cash, positions |-> x.positions,
                    submitted |-> << >>, pending |-> x.pending]
             a1 == DrawDownNotifyFund(NotifyAnalyzer(analyzers, x.trades),
                                      GetValue(b1, f, datas))
             z == StrategyStep([f |-> f, b |-> b1,
                                st |-> NotifyStrategy(strat, x.trades),
                                log |-> << >>])
         IN  /\ \E d \in names : bars[d].has
             /\ t' = t + 1
             /\ gaps' = IF \A d \in names : bars[d].has THEN gaps ELSE gaps + 1
             /\ feed' = f
             /\ IF request.strategy = "RSI" /\
                   \E d \in names : bars[d].has /\ RsiRaises(f[d].closes)
                THEN (* ZeroDivisionError out of cerebro.run(): answered 500 *)
                     /\ pc' = "error"
                     /\ result' = [status |-> "500"]
                     /\ UNCHANGED << broker, strat, analyzers, obs >>
                ELSE /\ pc' = "run"
                     /\ broker' = z.b
                     /\ strat' = z.st
                     /\ analyzers' = DrawDownNext(a1)
                     /\ obs' = TrackFills(
                                 [obs EXCEPT
                                    !.fills = x.fills,
                                    !.trades = x.trades,
                                    !.margins = x.margins,
                                    !.orders = z.log,
                                    !.pnls = TrackPnls(@, x.trades),
                                    !.ran = IF MinPeriodReached(f) THEN "next"
                                            ELSE "prenext"],
                                 x.fills, f)
                     /\ result' = result
    /\ UNCHANGED << request, fetched, datas, allocations, calendar >>
    /\ UNCHANGED screenVars

----------------------------------------------------------------------------
(* The end of the run: lines 960-1020 of run_portfolio_backtest *)

(* win_rate = (won_trades / total_trades * 100) if total_trades > 0 else 0,
   kept as the fraction num / den *)
WinRate(won_trades, total_trades) ==
    IF total_trades > 0 THEN [num |-> won_trades * 100, den |-> total_trades]
    ELSE [num |-> 0, den |-> 1]

Finish ==
    /\ pc = "run"
    /\ t >= 1
    /\ \A d \in SeqRange(datas) : feed[d].len >= 1
    /\ pc' = "done"
    /\ result' =
         [status |-> "200",
          final_value |-> GetValue(broker, feed, datas),
          initial_value |-> initial_cash,
          total_trades |-> analyzers.total,
          winning_trades |-> analyzers.won,
          losing_trades |-> analyzers.lost,
          win_rate |-> WinRate(analyzers.won, analyzers.total),
          max_drawdown |-> analyzers.maxdd,
          stock_performances |->
              [d \in SeqRange(datas) |->
                  [trades |-> strat[d].trade_counts,
                   winning_trades |-> strat[d].winning_trades,
                   losing_trades |-> strat[d].losing_trades,
                   allocation |-> allocations[d]]]]
    /\ UNCHANGED << request, fetched, datas, allocations, calendar, t, gaps,
                    feed, broker, strat, analyzers, obs >>
    /\ UNCHANGED screenVars

Next ==
    \/ Validate
    \/ Configure
    \/ Download
    \/ CerebroStep
    \/ Finish

(* every feed of a run has a bar on every date of the run *)
Spec == Init /\ [][Next]_vars

(* the feeds of a run have calendars of their own *)
InitGaps ==
    /\ pc = "validate"
    /\ request \in Requests(GapStockLists, {"MACD", "Volume_Spike"})
    /\ calendar = "own"
    /\ InitRest

SpecGaps == InitGaps /\ [][Next]_vars

(* requests for the RSI strategy whose sell threshold is not above the buy
   threshold *)
InitThresholds ==
    /\ pc = "validate"
    /\ request \in [stocks : { << Stock("A", Pct(100)) >> },
                     strategy : {"RSI"},
                     start_date : {Today - 1}, end_date : {Today},
                     rsi_buy : {50, rsi_sell}, rsi_sell : {rsi_buy, 50},
                     volume_hold_days : {MaxHoldDays}]
    /\ calendar = "shared"
    /\ InitRest

SpecThresholds == InitThresholds /\ [][Next]_vars

----------------------------------------------------------------------------
(* The executor (concurrent.futures.ThreadPoolExecutor): a FIFO work queue,
   threads that are started on submit, a semaphore that counts the threads
   waiting on an empty queue *)

NewThread == [pc |-> "polling", task |-> << >>, key |-> << >>, at |-> 0,
              fetch_at |-> 0, old |-> FALSE, reused |-> 0, trace |-> << >>]

adjust_thread_count_unbounded(num_threads) == TRUE

(* ThreadPoolExecutor._adjust_thread_count: a thread is started when no
   thread is idle and fewer than max_workers threads exist *)
adjust_thread_count(num_threads) == num_threads < MaxWorkers

(* executor.submit, called by loop.run_in_executor *)
submit(pl, task) ==
    IF pl.idle > 0
    THEN [pl EXCEPT !.queue = Append(@, task), !.idle = @ - 1]
    ELSE IF adjust_thread_count(Len(pl.threads))
    THEN [pl EXCEPT !.queue = Append(@, task),
                    !.threads = Append(@, NewThread)]
    ELSE [pl EXCEPT !.queue = Append(@, task)]

(* results_futures = [process_stock_async(symbol) for symbol in
   stock_symbols], started by asyncio.gather in that order *)
RECURSIVE SubmitAll(_, _, _)
SubmitAll(pl, r, symbols) ==
    IF symbols = << >> THEN pl
    ELSE SubmitAll(submit(pl, << r, Head(symbols) >>), r, Tail(symbols))

(* screen_stocks up to the await of line 1072 *)
ScreenStocks ==
    /\ \E r \in ScreenIds :
          /\ screens[r].pc = "idle"
          /\ \A q \in ScreenIds : q < r => screens[q].pc # "idle"
          /\ screens' = [screens EXCEPT ![r].pc = "waiting"]
          /\ pool' = SubmitAll(pool, r, Universe)
    /\ UNCHANGED << now, market, caches, clearer >>
    /\ UNCHANGED backtestVars
    /\ UNCHANGED calc

----------------------------------------------------------------------------
(* process_single_stock *)

(* the if-chains of lines 712-718 and 728-762 over the filters named: a
   filter that is switched off is passed over, the first comparison that
   fails returns None, an exception is caught by line 784 and returns None *)
RECURSIVE RunFilters(_, _, _, _)
RunFilters(names, params, stock, trace) ==
    IF names = << >> THEN [ret |-> "record", trace |-> trace]
    ELSE IF Head(names) \notin params.enabled
    THEN RunFilters(Tail(names), params, stock, trace)
    ELSE IF stock.throws = Head(names)
    THEN [ret |-> "None", trace |-> trace \o << Head(names), "raise" >>]
    ELSE IF Head(names) \in stock.fails /\ Head(names) \notin params.any
    THEN [ret |-> "None", trace |-> Append(trace, Head(names))]
    ELSE RunFilters(Tail(names), params, stock, Append(trace, Head(names)))

AfterBars_keeps_going(stock, params) ==
    [ret |-> "record",
     trace |-> RunFilters(QuickFilters, params, stock, << >>).trace]

(* lines 704-718: the frame is None, empty or has fewer than 2 bars; the
   basic metrics; the price and the volume filter *)
AfterBars(stock, params) ==
    IF stock.bars # "bars" THEN [ret |-> "None", trace |-> << >>]
    ELSE IF stock.throws = "metrics"
    THEN [ret |-> "None", trace |-> << "raise" >>]
    ELSE RunFilters(QuickFilters, params, stock, << >>)

(* lines 721-782: the metadata, the filters on it, the indicators *)
AfterInfo(stock, params, trace) ==
    RunFilters(InfoFilters, params, stock, Append(trace, "info"))

(* lru_cache: the arguments are in the cache *)
Cached(cache, symbol, key) ==
    \E k \in 1..Len(cache) : cache[k].symbol = symbol /\ cache[k].key = key

Slot(cache, symbol, key) ==
    CHOOSE k \in 1..Len(cache) :
       cache[k].symbol = symbol /\ cache[k].key = key

(* lru_cache on a hit: the entry becomes the most recently used *)
Touch(cache, symbol, key) ==
    LET k == Slot(cache, symbol, key)
    IN  SubSeq(cache, 1, k - 1) \o SubSeq(cache, k + 1, Len(cache))
          \o << cache[k] >>

Store_unbounded(cache, e) ==
    IF Cached(cache, e.symbol, e.key) THEN cache ELSE Append(cache, e)

(* lru_cache after the call of the wrapped function: nothing changes if
   another thread has put a result for the same arguments meanwhile;
   otherwise the result is kept as the most recently used entry, in the
   place of the least recently used one when the cache is full *)
Store(cache, e) ==
    IF Cached(cache, e.symbol, e.key) THEN cache
    ELSE IF Len(cache) < MaxSize THEN Append(cache, e)
    ELSE Append(Tail(cache), e)

(* the minute of the call that made the entry of the arguments *)
MadeAt(cache, symbol, key) == cache[Slot(cache, symbol, key)].at

(* the fields of a record are written as the expression of the source that
   gives their value: the name of what was read or computed, or the
   literal the code puts in its place *)
Zero == "0.0"
Neutral == "50.0"

(* lines 722-723: ticker_info.get('marketCap', 0) and
   ticker_info.get('trailingPE', 0) if ticker_info.get('trailingPE') else 0;
   ticker_info is {} when ticker.info raised (line 688) *)
market_cap(stock) ==
    IF stock.info = "raises" THEN Zero
    ELSE IF stock.throws = "market_cap" THEN "None" ELSE "marketCap"

pe_ratio(stock) == IF stock.info = "raises" THEN Zero ELSE "trailingPE"

(* lines 742-744, 748-750, 756-758: the value an indicator field starts
   with, replaced by the computed one only if the filter is switched on *)
rsi_value(params) ==
    IF "rsi" \in params.enabled THEN "calculate_rsi" ELSE Neutral

macd_value(params) ==
    IF "macd" \in params.enabled THEN "calculate_macd" ELSE Zero

vwap_value(params) ==
    IF "vwap" \in params.enabled THEN "calculate_vwap" ELSE Zero

(* the dict of lines 769-782 *)
Record(stock, params) ==
    [current_price |-> "Close", volume |-> "Volume",
     market_cap |-> market_cap(stock),
     pe_ratio |-> pe_ratio(stock),
     rsi |-> rsi_value(params),
     macd |-> macd_value(params),
     vwap |-> IF "vwap" \in params.enabled THEN vwap_value(params) ELSE Zero]

Result(th, a) ==
    [ret |-> a.ret, trace |-> a.trace, at |-> th.at, reused |-> th.reused,
     record |-> IF a.ret = "record"
                THEN Record(market[th.task[2]], screens[th.task[1]].params)
                ELSE << >>]

(* the thread returns from process_single_stock; the future gets a *)
Return(pl, w, th, a) ==
    /\ pool' = [pl EXCEPT !.threads[w] = NewThread]
    /\ screens' = [screens EXCEPT
                     ![th.task[1]].results[th.task[2]] = Result(th, a)]

(* the thread has the bars of its symbol and goes on until it returns or
   waits for the provider's metadata; a is what lines 704-718 gave, c the
   caches as the lookup of the bars left them *)
Proceed(pl, w, th, a, c) ==
    IF a.ret = "None"
    THEN /\ Return(pl, w, th, a)
         /\ caches' = c
    ELSE IF Cached(c.info, th.task[2], th.key)
    THEN /\ Return(pl, w, th, AfterInfo(market[th.task[2]],
                                        screens[th.task[1]].params, a.trace))
         /\ caches' = [c EXCEPT !.info = Touch(@, th.task[2], th.key)]
    ELSE /\ pool' = [pl EXCEPT !.threads[w] =
                        [th EXCEPT !.pc = "fetch_info", !.fetch_at = now,
                                   !.old = FALSE, !.trace = a.trace]]
         /\ screens' = screens
         /\ caches' = c

(* the thread has taken the task (r, symbol) and read the clock: line 700,
   then the call of get_cached_stock_data *)
Started(pl, w, th) ==
    IF Cached(caches.data, th.task[2], th.key)
    THEN Proceed(pl, w,
                 [th EXCEPT !.reused = MadeAt(caches.data, th.task[2], th.key)],
                 AfterBars(market[th.task[2]], screens[th.task[1]].params),
                 [caches EXCEPT !.data = Touch(@, th.task[2], th.key)])
    ELSE /\ pool' = [pl EXCEPT !.threads[w] =
                        [th EXCEPT !.pc = "fetch_data", !.fetch_at = now]]
         /\ screens' = screens
         /\ caches' = caches

(* a thread of the executor takes the next work item and runs it up to its
   first wait *)
RunTask ==
    /\ pool.queue # << >>
    /\ \E w \in 1..Len(pool.threads) :
          /\ pool.threads[w].pc \in {"polling", "blocked"}
          /\ Started([pool EXCEPT !.queue = Tail(@)], w,
                     [NewThread EXCEPT !.task = Head(pool.queue),
                                       !.key = get_cache_key(now),
                                       !.at = now])
    /\ UNCHANGED << now, market, clearer >>
    /\ UNCHANGED backtestVars
    /\ UNCHANGED calc

(* a thread that finds the queue empty releases the semaphore and waits *)
Block ==
    /\ pool.queue = << >>
    /\ \E w \in 1..Len(pool.threads) :
          /\ pool.threads[w].pc = "polling"
          /\ pool' = [pool EXCEPT !.threads[w].pc = "blocked",
                                  !.idle = @ + 1]
    /\ UNCHANGED << now, market, screens, caches, clearer >>
    /\ UNCHANGED backtestVars
    /\ UNCHANGED calc

BarsFetched_failures_not_kept ==
    /\ \E w \in 1..Len(pool.threads) :
          /\ pool.threads[w].pc = "fetch_data"
          /\ Proceed(pool, w, pool.threads[w],
                     AfterBars(market[pool.threads[w].task[2]],
                               screens[pool.threads[w].task[1]].params),
                     IF market[pool.threads[w].task[2]].bars
                           \in {"raises", "empty"}
                     THEN caches
                     ELSE [caches EXCEPT !.data =
                             Store(@, Entry(pool.threads[w].task[2],
                                            pool.threads[w].key,
                                            pool.threads[w].fetch_at,
                                            pool.threads[w].old))])
    /\ UNCHANGED << now, market, clearer >>
    /\ UNCHANGED backtestVars
    /\ UNCHANGED calc

(* the provider has answered the download of a thread: lines 672-678, the
   result is kept by lru_cache, the thread goes on *)
BarsFetched ==
    /\ \E w \in 1..Len(pool.threads) :
          /\ pool.threads[w].pc = "fetch_data"
          /\ Proceed(pool, w, pool.threads[w],
                     AfterBars(market[pool.threads[w].task[2]],
                               screens[pool.threads[w].task[1]].params),
                     [caches EXCEPT !.data =
                          Store(@, Entry(pool.threads[w].task[2],
                                         pool.threads[w].key,
                                         pool.threads[w].fetch_at,
                                         pool.threads[w].old))])
    /\ UNCHANGED << now, market, clearer >>
    /\ UNCHANGED backtestVars
    /\ UNCHANGED calc

(* the provider has answered ticker.info of a thread: lines 683-688, the
   result is kept by lru_cache, the thread goes on to its return *)
InfoFetched ==
    /\ \E w \in 1..Len(pool.threads) :
          /\ pool.threads[w].pc = "fetch_info"
          /\ caches' = [caches EXCEPT !.info =
                          Store(@, Entry(pool.threads[w].task[2],
                                         pool.threads[w].key,
                                         pool.threads[w].fetch_at,
                                         pool.threads[w].old))]
          /\ Return(pool, w, pool.threads[w],
                    AfterInfo(market[pool.threads[w].task[2]],
                              screens[pool.threads[w].task[1]].params,
                              pool.threads[w].trace))
    /\ UNCHANGED << now, market, clearer >>
    /\ UNCHANGED backtestVars
    /\ UNCHANGED calc

----------------------------------------------------------------------------
(* The end of screen_stocks: lines 1072-1078 *)

SymbolBefore(a, b) == a = "A" /\ b = "B"

(* results.sort(key=lambda x: x['symbol']) *)
RECURSIVE Insert(_, _)
Insert(sorted, x) ==
    IF sorted = << >> THEN << x >>
    ELSE IF SymbolBefore(x, Head(sorted)) THEN << x >> \o sorted
    ELSE << Head(sorted) >> \o Insert(Tail(sorted), x)

Sorted_as_gathered(v) == v

RECURSIVE Sorted(_)
Sorted(v) == IF v = << >> THEN << >>
             ELSE Insert(Sorted(SubSeq(v, 1, Len(v) - 1)), v[Len(v)])

NotNone_all(symbols, results) == symbols

(* results = [r for r in all_results if r is not None] *)
RECURSIVE NotNone(_, _)
NotNone(symbols, results) ==
    IF symbols = << >> THEN << >>
    ELSE (IF results[Head(symbols)].ret = "record" THEN << Head(symbols) >>
          ELSE << >>)
         \o NotNone(Tail(symbols), results)

(* asyncio.gather has every result: the response is the sorted list *)
Gather ==
    /\ \E r \in ScreenIds :
          /\ screens[r].pc = "waiting"
          /\ \A sym \in SeqRange(Universe) :
                screens[r].results[sym].ret # "pending"
          /\ screens' = [screens EXCEPT
                           ![r].pc = "done",
                           ![r].response =
                               Sorted(NotNone(Universe, screens[r].results))]
    /\ UNCHANGED << now, market, pool, caches, clearer >>
    /\ UNCHANGED backtestVars
    /\ UNCHANGED calc

----------------------------------------------------------------------------
(* clear_screening_cache: the two cache_clear() calls.  A download that is
   under way when the handler starts is marked as old. *)

MarkOld(threads) ==
    [w \in 1..Len(threads) |->
        IF threads[w].pc \in {"fetch_data", "fetch_info"}
        THEN [threads[w] EXCEPT !.old = TRUE] ELSE threads[w]]

(* get_cached_stock_data.cache_clear() *)
ClearStockData ==
    /\ clearer.pc = "idle"
    /\ clearer.calls < MaxClears
    /\ clearer' = [clearer EXCEPT !.pc = "info"]
    /\ caches' = [caches EXCEPT !.data = << >>]
    /\ pool' = [pool EXCEPT !.threads = MarkOld(@)]
    /\ UNCHANGED << now, market, screens >>
    /\ UNCHANGED backtestVars
    /\ UNCHANGED calc

(* get_cached_ticker_info.cache_clear(), and the return *)
ClearTickerInfo ==
    /\ clearer.pc = "info"
    /\ clearer' = [pc |-> "idle", calls |-> clearer.calls + 1]
    /\ caches' = [caches EXCEPT !.info = << >>]
    /\ UNCHANGED << now, market, screens, pool >>
    /\ UNCHANGED backtestVars
    /\ UNCHANGED calc

(* time passes *)
Tick ==
    /\ now < FirstMinute + MaxTicks * MinutesPerTick
    /\ now' = now + MinutesPerTick
    /\ UNCHANGED << market, screens, pool, caches, clearer >>
    /\ UNCHANGED backtestVars
    /\ UNCHANGED calc

NextScreen ==
    \/ ScreenStocks
    \/ RunTask
    \/ Block
    \/ BarsFetched
    \/ InfoFetched
    \/ Gather
    \/ ClearStockData
    \/ ClearTickerInfo
    \/ Tick

(* no backtest is served *)
NoBacktest ==
    /\ pc = "idle"
    /\ calendar = "shared"
    /\ request = << >>
    /\ fetched = << >>
    /\ datas = << >>
    /\ allocations = << >>
    /\ t = 0
    /\ gaps = 0
    /\ feed = << >>
    /\ broker = [cash |-> 0, positions |-> << >>, submitted |-> << >>,
                 pending |-> << >>]
    /\ strat = << >>
    /\ analyzers = [total |-> 0, open |-> 0, closed |-> 0, won |-> 0,
                    lost |-> 0, maxvalue |-> 0, value |-> 0,
                    maxdd |-> [num |-> 0, den |-> 1]]
    /\ obs = EmptyObs
    /\ result = NoResult

(* two screening requests without filters, served at the same time, while
   time passes and the caches are cleared *)
InitScreen ==
    /\ NoBacktest
    /\ now = FirstMinute
    /\ market = [sym \in SeqRange(Universe) |-> Passing]
    /\ screens = [r \in ScreenIds |-> NewScreen(NoFilters)]
    /\ pool = NoPool
    /\ caches = NoCaches
    /\ clearer = IdleClearer
    /\ calc = NoCall

SpecScreen == InitScreen /\ [][NextScreen]_vars

(* two screening requests served around the end of a bucket of the cache
   key, with one call of clear_screening_cache still to come; the provider
   has bars and metadata for the first symbol and an empty frame for the
   other *)
InitCache ==
    /\ NoBacktest
    /\ now = FirstMinute + (MaxTicks - 1) * MinutesPerTick
    /\ market = [sym \in SeqRange(Universe) |->
                    IF sym = Universe[1] THEN Passing
                    ELSE Symbol("empty", "ok", {}, "none")]
    /\ screens = [r \in ScreenIds |-> NewScreen(NoFilters)]
    /\ pool = NoPool
    /\ caches = NoCaches
    /\ clearer = [IdleClearer EXCEPT !.calls = MaxClears - 1]
    /\ calc = NoCall

SpecCache == InitCache /\ [][NextScreen]_vars

(* the steps of the screening requests and of the executor alone *)
NextTasks ==
    \/ ScreenStocks
    \/ RunTask
    \/ Block
    \/ BarsFetched
    \/ InfoFetched
    \/ Gather

(* one screening request, with any of the parameter sets, over symbols of
   which the first has any of the provider's answers *)
InitFilters ==
    /\ NoBacktest
    /\ now = FirstMinute
    /\ market \in [SeqRange(Universe) -> Markets]
    /\ market[Universe[Len(Universe)]] \in
          {Passing, Symbol("bars", "ok", {"volume", "vwap"}, "none")}
    /\ \E ps \in ParamSets :
          screens = [r \in ScreenIds |->
                       IF r = 1 THEN NewScreen(ps)
                       ELSE [NewScreen(ps) EXCEPT !.pc = "absent"]]
    /\ pool = NoPool
    /\ caches = NoCaches
    /\ clearer = IdleClearer
    /\ calc = NoCall

SpecFilters == InitFilters /\ [][NextTasks]_vars

(* two screening requests served at the same time by threads that run and a
   provider that answers *)
InitPool ==
    /\ NoBacktest
    /\ now = FirstMinute
    /\ market \in [SeqRange(Universe) ->
                      {Passing, Symbol("raises", "ok", {}, "none")}]
    /\ screens = [r \in ScreenIds |-> NewScreen(NoFilters)]
    /\ pool = NoPool
    /\ caches = NoCaches
    /\ clearer = IdleClearer
    /\ calc = NoCall

SpecPool ==
    /\ InitPool
    /\ [][NextTasks]_vars
    /\ WF_vars(RunTask)
    /\ WF_vars(BarsFetched)
    /\ WF_vars(InfoFetched)

----------------------------------------------------------------------------
(* calculate_rsi (lines 459-468), as process_single_stock calls it on the
   closes of a symbol *)

ClosePrices == {1, 2, 3}

(* the closes the function can be handed: none, or up to MaxPrices *)
PriceLists == UNION { [1..n -> ClosePrices] : n \in 0..MaxPrices }

(* a return value, as a fraction *)
Float(num, den) == [num |-> num, den |-> den]

(* delta = pd.Series(prices).diff(): the first index has no value (NaN) *)
delta(prices, i) == prices[i] - prices[i - 1]

(* delta.where(delta > 0, 0): the NaN of the first index compares false
   and becomes 0 like every delta that is not positive *)
gain(prices) ==
    [i \in 1..Len(prices) |->
        IF i > 1 /\ delta(prices, i) > 0 THEN delta(prices, i) ELSE 0]

(* -delta.where(delta < 0, 0) *)
loss(prices) ==
    [i \in 1..Len(prices) |->
        IF i > 1 /\ delta(prices, i) < 0 THEN 0 - delta(prices, i) ELSE 0]

(* .rolling(window=window).mean() at the last index has a value once the
   series has window entries *)
RollingDefined(v, window) == Len(v) >= window

(* window times that value *)
RollingSum(v, window) == SumSeq(LastN(v, window))

(* the whole function: rs = gain / loss is NaN for 0 / 0 and inf for a
   positive gain over a loss of 0, rsi = 100 - 100 / (1 + rs) is then NaN
   and 100; a NaN is answered with 50.0, and so is the IndexError of
   rsi.iloc[-1] on an empty series, by the except clause *)
calculate_rsi(prices, window) ==
    IF prices = << >> THEN Float(50, 1)
    ELSE IF ~ RollingDefined(gain(prices), window) THEN Float(50, 1)
    ELSE IF RollingSum(loss(prices), window) = 0
    THEN (IF RollingSum(gain(prices), window) = 0 THEN Float(50, 1)
          ELSE Float(100, 1))
    ELSE Float(100 * RollingSum(gain(prices), window),
               RollingSum(gain(prices), window)
                 + RollingSum(loss(prices), window))

(* the call returns *)
CalculateRsi ==
    /\ calc.pc = "called"
    /\ calc' = [calc EXCEPT !.pc = "returned",
                            !.ret = calculate_rsi(calc.prices, RsiWindow)]
    /\ UNCHANGED << now, market, screens, pool, caches, clearer >>
    /\ UNCHANGED backtestVars

(* calculate_rsi called on any list of closes *)
InitRsi ==
    /\ NoBacktest
    /\ NoScreening
    /\ \E prices \in PriceLists :
          calc = [NoCall EXCEPT !.pc = "called", !.prices = prices]

SpecRsi == InitRsi /\ [][CalculateRsi]_vars

----------------------------------------------------------------------------
(* Properties *)

FeedIndex(d) == CHOOSE k \in 1..Len(datas) : datas[k] = d

(* what an order of next() would add to the cash if it were settled at the
   close inside next() *)
SettledAtClose(o) ==
    IF o.isbuy THEN 0 - o.size * LastClose(feed, o.data)
    ELSE o.size * LastClose(feed, o.data)

(* C1 as stated: within one step every instrument is sized from the cash
   that remains after the purchases of the instruments before it in the
   list (with 100000 and 60/40 the second instrument sees 40000). *)
C1_CashDebitedWithinStep ==
    pc = "run" =>
      \A k \in 1..Len(obs.orders) :
         k > 1 =>
           obs.orders[k].cash_seen =
             obs.orders[k - 1].cash_seen + SettledAtClose(obs.orders[k - 1])

(* C1 amended: within one step the instruments are evaluated in list order,
   and every one of them is sized from the same cash, the broker's cash at
   the start of the step: an order placed earlier in the step is not
   debited before the next bar (with 100000, 60/40 and closes 50/25 the
   orders are for 1200 and 1600 shares). *)
C1_SameCashWithinStep ==
    pc = "run" =>
      \A k \in 1..Len(obs.orders) :
         LET o == obs.orders[k]
         IN  /\ o.cash_seen = broker.cash
             /\ o.isbuy => o.size = OrderSize(broker.cash, feed, o.data)
             /\ k > 1 => FeedIndex(obs.orders[k - 1].data) < FeedIndex(o.data)

(* two instruments bought in the same step: 1200 shares at 50 for 60 %,
   then 1600 shares at 25 for 40 % of the same 100000 *)
C1_Witness ==
    /\ pc = "run"
    /\ Len(obs.orders) = 2
    /\ obs.orders[1] = [data |-> "A", isbuy |-> TRUE, size |-> 1200,
                        cash_seen |-> 100000, pos_seen |-> 0]
    /\ obs.orders[2] = [data |-> "B", isbuy |-> TRUE, size |-> 1600,
                        cash_seen |-> 100000, pos_seen |-> 0]
    /\ LastClose(feed, "A") = 50
    /\ LastClose(feed, "B") = 25

----------------------------------------------------------------------------
RECURSIVE ClosedPnl(_)
ClosedPnl(evs) ==
    IF evs = << >> THEN 0
    ELSE (IF Head(evs).kind = "closed" THEN Head(evs).pnl ELSE 0)
         + ClosedPnl(Tail(evs))

CloseOr0(f, d) == IF f[d].len = 0 THEN 0 ELSE LastClose(f, d)

(* the change of the value of the positions held before the step, from the
   last close to the new close *)
RECURSIVE HeldMove(_)
HeldMove(names) ==
    IF names = << >> THEN 0
    ELSE broker.positions[Head(names)].size
           * (CloseOr0(feed', Head(names)) - CloseOr0(feed, Head(names)))
         + HeldMove(Tail(names))

(* the filled quantities, from their fill price to the new close *)
RECURSIVE FillMove(_)
FillMove(fills) ==
    IF fills = << >> THEN 0
    ELSE (Head(fills).pos_after - Head(fills).pos_before)
           * (CloseOr0(feed', Head(fills).data) - Head(fills).price)
         + FillMove(Tail(fills))

IsStep == pc = "run" /\ pc' = "run" /\ t' = t + 1

(* C2 as stated: at every step the equity, cash plus the positions at their
   price, equals the previous equity snapshot plus the pnl realized in the
   step. *)
C2_EquityIsPreviousPlusRealized ==
    [][IsStep /\ t >= 1 =>
         analyzers'.value = analyzers.value + ClosedPnl(obs'.trades)]_vars

(* C2 amended: executing orders creates or destroys no value.  Every fill
   changes the cash by exactly minus the filled quantity times the fill
   price, so the equity at the fill price is the same before and after the
   fill; and the equity of a step is the previous equity snapshot plus the
   move of the held positions from the last close to the new close plus the
   move of the filled quantities from their fill price to the new close. *)
C2_FillsConserveEquity ==
    [][IsStep =>
         /\ \A k \in 1..Len(obs'.fills) :
               LET fl == obs'.fills[k]
               IN  fl.cash_after + fl.pos_after * fl.price
                     = fl.cash_before + fl.pos_before * fl.price
         /\ t >= 1 =>
               analyzers'.value = analyzers.value + HeldMove(datas)
                                    + FillMove(obs'.fills)]_vars

(* a position bought at one price and held over a change of the close is
   sold at an open that differs from the close of the bar *)
C2_Witness ==
    /\ pc = "run"
    /\ \E k \in 1..Len(obs.fills) :
          /\ ~ obs.fills[k].isbuy
          /\ obs.fills[k].pos_before > 0
          /\ obs.fills[k].pos_after = 0
          /\ obs.fills[k].price # LastClose(feed, obs.fills[k].data)
          /\ obs.fills[k].cash_after > obs.fills[k].cash_before

----------------------------------------------------------------------------
Alternating(sides) ==
    \A k \in 1..Len(sides) :
       sides[k] = (IF k % 2 = 1 THEN "buy" ELSE "sell")

(* C3: every instrument is FLAT (quantity 0) or LONG (quantity > 0), never
   short; a BUY is only issued while it is FLAT and a SELL only while it is
   LONG, for exactly the held quantity; the fills of an instrument strictly
   alternate BUY, SELL, BUY, ...; at most one trade is open at a time, so
   never more trades are open than there are instruments. *)
C3_FlatOrLong ==
    pc = "run" =>
      /\ \A d \in SeqRange(datas) :
            /\ broker.positions[d].size >= 0
            /\ Alternating(obs.sides[d])
            /\ (broker.positions[d].size > 0) = (Len(obs.sides[d]) % 2 = 1)
      /\ \A k \in 1..Len(obs.orders) :
            IF obs.orders[k].isbuy
            THEN obs.orders[k].pos_seen = 0
            ELSE obs.orders[k].pos_seen > 0 /\
                 obs.orders[k].size = obs.orders[k].pos_seen
      /\ analyzers.open <= Len(datas)

(* C4: under the volume-spike strategy with hold_days = h a position opened
   on bar N of its instrument is closed exactly on bar N + h, never earlier
   and never later; the hold counter is 0 when the position opens and 0
   again once it is closed. *)
C4_HeldExactlyHoldDays ==
    pc = "run" /\ request.strategy = "Volume_Spike" =>
      \A d \in SeqRange(datas) :
         LET h == request.volume_hold_days
             held == feed[d].len - obs.opened_at[d]
         IN  /\ broker.positions[d].size # 0 => held < h
             /\ obs.closed_at[d] > 0 =>
                   obs.closed_at[d] = obs.opened_at[d] + h \/
                   (obs.opened_at[d] > obs.closed_at[d] /\
                    broker.positions[d].size # 0)
             /\ broker.positions[d].size = 0 => strat[d].hold_counters = 0
             /\ broker.positions[d].size # 0 =>
                   strat[d].hold_counters =
                      (IF held + 1 < h THEN held + 1 ELSE 0)

----------------------------------------------------------------------------
(* C5: the MACD crossover strategy never emits a BUY or a SELL on the first
   bar of an instrument: an order is only emitted on a bar that has a
   predecessor on which the MACD and signal lines have a value, and with
   fewer than 2 bars, or no such predecessor, the single-instrument variant
   holds as well, whatever its position. *)
C5_MacdHoldsOnFirstBar ==
    pc = "run" /\ request.strategy = "MACD" =>
      /\ \A k \in 1..Len(obs.orders) :
            /\ feed[obs.orders[k].data].len >= 2
            /\ feed[obs.orders[k].data].prevrel # "nan"
      /\ \A d \in SeqRange(datas) :
            feed[d].len < 2 \/ feed[d].prevrel = "nan" =>
              \A position \in {0, 1} :
                 MACDStrategyNext(position, feed[d].rel, feed[d].prevrel)
                   = "hold"

(* next() has run for the first time, the MACD line is above the signal
   line on that bar, and nothing was ordered *)
C5_Witness ==
    /\ pc = "run"
    /\ request.strategy = "MACD"
    /\ obs.ran = "next"
    /\ feed["A"].len = MacdMinPeriod
    /\ feed["A"].rel = "gt"
    /\ feed["A"].prevrel = "nan"
    /\ broker.positions["A"].size = 0
    /\ obs.orders = << >>

WinsOf(pnls) == Cardinality({ k \in 1..Len(pnls) : pnls[k] > 0 })
LossesOf(pnls) == Cardinality({ k \in 1..Len(pnls) : pnls[k] <= 0 })

RECURSIVE SumOver(_, _)
SumOver(names, g) ==
    IF names = << >> THEN 0
    ELSE g[Head(names)] + SumOver(Tail(names), g)

(* C6: every closed trade is classified once, as a win when its pnl is > 0
   and as a loss when its pnl is <= 0, in the per-instrument counters and in
   the aggregate winning_trades and losing_trades of the result. *)
C6_WinLossClassification ==
    pc = "done" =>
      /\ \A d \in SeqRange(datas) :
            /\ result.stock_performances[d].trades = Len(obs.pnls[d])
            /\ result.stock_performances[d].winning_trades = WinsOf(obs.pnls[d])
            /\ result.stock_performances[d].losing_trades = LossesOf(obs.pnls[d])
      /\ result.winning_trades =
            SumOver(datas, [d \in SeqRange(datas) |-> WinsOf(obs.pnls[d])])
      /\ result.losing_trades =
            SumOver(datas, [d \in SeqRange(datas) |-> LossesOf(obs.pnls[d])])

(* C7: the reported win rate is wins / closed trades * 100, and 0 when no
   trade was closed; trades still open at the end are not in the
   denominator. *)
C7_WinRateOverClosedTrades ==
    pc = "done" =>
      LET closed == SumOver(datas, [d \in SeqRange(datas) |-> Len(obs.pnls[d])])
      IN  IF closed = 0
          THEN result.win_rate.num = 0
          ELSE result.win_rate.num * closed
                 = result.winning_trades * 100 * result.win_rate.den

DrawdownInRange(a) ==
    /\ a.maxdd.num >= 0
    /\ a.maxdd.den > 0
    /\ a.maxdd.num <= a.maxdd.den
    /\ a.maxvalue >= a.value
    /\ a.maxvalue = 0 => a.maxdd.num = 0

(* C8: after any prefix of the run max drawdown is >= 0 and at most 100 % of
   the running peak, the running peak never decreases and max drawdown never
   decreases; the drawdown is 0 while the peak is 0. *)
C8_DrawdownBounded ==
    [][/\ DrawdownInRange(analyzers)
       /\ DrawdownInRange(analyzers')
       /\ analyzers'.maxvalue >= analyzers.maxvalue
       /\ RatLeq(analyzers.maxdd.num, analyzers.maxdd.den,
                 analyzers'.maxdd.num, analyzers'.maxdd.den)]_vars

(* C9: a single instrument with a constant close of 100 under the RSI
   strategy: the run completes, nothing is ordered, and the final value
   is the initial cash. *)
C9_ConstantSeriesCompletes ==
    LET constant == /\ request.strategy = "RSI"
                    /\ datas = << "A" >>
                    /\ t >= 1
                    /\ t <= RsiPeriod + 1
                    /\ feed["A"].len = t
                    /\ \A k \in 1..Len(feed["A"].closes) :
                          feed["A"].closes[k] = 100
    IN  constant =>
          /\ pc \in {"run", "done"}
          /\ obs.orders = << >>
          /\ pc = "done" => result.final_value = initial_cash /\
                            result.total_trades = 0

Accepted == pc \in {"configure", "download", "run", "done", "error"}

(* C10: a request is accepted only if its allocations, each in [0, 100],
   sum to 100 within 0.01; a request whose sum differs from 100 by more than
   0.01 is rejected before any data is fetched and before any step runs. *)
C10_AllocationsSumTo100 ==
    /\ Accepted =>
          /\ Abs(SumAllocations(request.stocks) - HundredPct) <= Tolerance
          /\ \A k \in 1..Len(request.stocks) :
                request.stocks[k].allocation \in 0..HundredPct
    /\ pc # "validate" /\
       Abs(SumAllocations(request.stocks) - HundredPct) > Tolerance =>
          /\ pc = "rejected"
          /\ result.status = "422"
          /\ datas = << >>
          /\ feed = << >>
          /\ t = 0

(* allocations of 60 % and 39.98 % are rejected *)
C10_Witness ==
    /\ pc = "rejected"
    /\ request.stocks = << Stock("A", Pct(60)), Stock("B", Pct(40) - 4) >>
    /\ result.status = "422"

----------------------------------------------------------------------------
InvalidDates(r) == r.start_date >= r.end_date \/ r.end_date > Today

UnknownStrategy(r) == r.strategy \notin {"RSI", "MACD", "Volume_Spike"}

ConfigurationDetails == {"Start date must be before end date",
                         "End date cannot be in the future",
                         "Unknown strategy"}

(* C11: a request with start date >= end date, with an end date in the
   future, or with an unknown strategy name is answered with the error of an
   invalid configuration (HTTP 400 with the detail of the failed check)
   before any market data is fetched and before any step runs, and nothing
   happens after the rejection: it is not retried. *)
C11_InvalidConfigurationRejected ==
    /\ [](pc \notin {"validate", "configure", "rejected"} /\
          (InvalidDates(request) \/ UnknownStrategy(request)) =>
            /\ pc = "error"
            /\ result.status = "400"
            /\ result.detail \in ConfigurationDetails
            /\ InvalidDates(request) =>
                  result.detail # "Unknown strategy"
            /\ fetched = << >>
            /\ datas = << >>
            /\ t = 0)
    /\ [][pc = "error" => pc' = "error" /\ UNCHANGED vars]_vars

(* a request for one day, from Today to Today, was rejected *)
C11_Witness ==
    /\ pc = "error"
    /\ request.start_date = Today
    /\ request.end_date = Today
    /\ request.strategy = "RSI"
    /\ result = [status |-> "400",
                 detail |-> "Start date must be before end date"]
    /\ fetched = << >>

(* C12: an RSI configuration whose sell threshold is less than or equal to
   its buy threshold is rejected at configuration time; no simulation runs
   with sell threshold <= buy threshold. *)
C12_SellThresholdAboveBuy ==
    request.strategy = "RSI" /\ request.rsi_sell <= request.rsi_buy =>
      /\ pc \notin {"run", "done"}
      /\ t = 0

----------------------------------------------------------------------------
FetchFailed == \E k \in 1..Len(fetched) : fetched[k].outcome # "bars"

(* C13: if the download of any one stock of a portfolio backtest gives no
   bars or fails, the whole request is answered with an error: no step is
   executed, no feed is added and no result over the remaining stocks is
   returned; a run only starts with the bars of every stock of the
   request. *)
C13_DataUnavailableAbortsRun ==
    /\ FetchFailed =>
          /\ pc = "error"
          /\ result = [status |-> "400", detail |-> "Failed to download data"]
          /\ t = 0
          /\ datas = << >>
          /\ feed = << >>
    /\ pc \in {"run", "done"} =>
          /\ Len(fetched) = Len(request.stocks)
          /\ \A k \in 1..Len(request.stocks) :
                /\ fetched[k] = Fetch(request.stocks[k].ticker, "bars")
                /\ request.stocks[k].ticker \in SeqRange(datas)

(* the first stock was downloaded, the download of the second one gave no
   bars, and the request failed *)
C13_Witness ==
    /\ pc = "error"
    /\ fetched = << Fetch("A", "bars"), Fetch("B", "empty") >>
    /\ result.status = "400"
    /\ t = 0

(* C14: in a step on which an instrument has no bar, the instrument is
   skipped: no order is issued for it and its position and its hold counter
   are what they were before the step. *)
C14_NoBarInstrumentSkipped ==
    [][IsStep =>
         \A d \in SeqRange(datas) :
            ~ feed'[d].fresh =>
              /\ \A k \in 1..Len(obs'.orders) : obs'.orders[k].data # d
              /\ broker'.positions[d] = broker.positions[d]
              /\ strat'[d].hold_counters = strat[d].hold_counters]_vars

----------------------------------------------------------------------------
(* Screening *)

Fetching(w) == pool.threads[w].pc \in {"fetch_data", "fetch_info"}

(* C15: for every (symbol, bucket) key, concurrent requests for the key by
   screening tasks, also tasks of different screening requests, trigger at
   most one upstream fetch, for the bars and for the metadata: no two
   fetches of the same kind for the same symbol and cache key are ever under
   way together. *)
C15_OneFetchPerKey ==
    \A w1, w2 \in 1..Len(pool.threads) :
       /\ w1 # w2
       /\ Fetching(w1)
       /\ pool.threads[w1].pc = pool.threads[w2].pc
       /\ pool.threads[w1].task[2] = pool.threads[w2].task[2]
       => pool.threads[w1].key # pool.threads[w2].key

FiveMinuteSlice(m) == m \div 5

Minutes == FirstMinute .. FirstMinute + MaxTicks * MinutesPerTick

(* C16: the cache bucket is 5 minutes wide: two lookups of a symbol made in
   the same 5-minute slice use the same cache key, and a task never uses
   bars cached by a call made in another 5-minute slice. *)
C16_FiveMinuteBucket ==
    /\ \A m1, m2 \in Minutes :
          FiveMinuteSlice(m1) = FiveMinuteSlice(m2) =>
            get_cache_key(m1) = get_cache_key(m2)
    /\ \A r \in ScreenIds : \A sym \in SeqRange(Universe) :
          screens[r].results[sym].reused # 0 =>
            FiveMinuteSlice(screens[r].results[sym].reused)
              = FiveMinuteSlice(screens[r].results[sym].at)

(* C17: once clear_screening_cache has returned, neither cache holds an
   entry made by a fetch that was started before the call, also when
   screening tasks run while the caches are cleared. *)
C17_ClearDropsEarlierFetches ==
    clearer.pc = "idle" /\ clearer.calls >= 1 =>
      \A e \in SeqRange(caches.data) \cup SeqRange(caches.info) : ~ e.old

----------------------------------------------------------------------------
ClaimedOrder == << "price", "volume", "sector", "market_cap", "pe", "rsi",
                   "macd", "vwap" >>

Eliminates(stock, params, f) ==
    f \in params.enabled /\ f \in stock.fails /\ f \notin params.any

(* the position in ClaimedOrder of the first enabled filter the symbol
   fails, one past the end when there is none *)
FirstFailing(stock, params) ==
    IF \E i \in 1..Len(ClaimedOrder) : Eliminates(stock, params, ClaimedOrder[i])
    THEN CHOOSE i \in 1..Len(ClaimedOrder) :
           /\ Eliminates(stock, params, ClaimedOrder[i])
           /\ \A j \in 1..(i - 1) : ~ Eliminates(stock, params, ClaimedOrder[j])
    ELSE Len(ClaimedOrder) + 1

(* what the claim lets a task do: the enabled filters in the claimed order
   up to the first that fails, with the metadata lookup between the volume
   and the sector filter if the task gets that far *)
RECURSIVE Allowed(_, _, _)
Allowed(stock, params, i) ==
    IF i > Len(ClaimedOrder) \/ i > FirstFailing(stock, params) THEN << >>
    ELSE (IF ClaimedOrder[i] = "sector" THEN << "info" >> ELSE << >>)
         \o (IF ClaimedOrder[i] \in params.enabled
             THEN << ClaimedOrder[i] >> ELSE << >>)
         \o Allowed(stock, params, i + 1)

AllowedTrace(stock, params) == Allowed(stock, params, 1)

IsPrefix(a, b) == Len(a) <= Len(b) /\ a = SubSeq(b, 1, Len(a))

NotRaise(x) == x # "raise"

Raised(trace) == \E k \in 1..Len(trace) : trace[k] = "raise"

(* what a task did is what the claim allows, all of it unless an exception
   ended the task *)
FailsFast(stock, params, res) ==
    /\ IsPrefix(SelectSeq(res.trace, NotRaise), AllowedTrace(stock, params))
    /\ ~ Raised(res.trace) /\ stock.bars = "bars" =>
          res.trace = AllowedTrace(stock, params)
    /\ stock.bars # "bars" => res.trace = << >>
    /\ res.ret = "record" <=>
          /\ stock.bars = "bars"
          /\ ~ Raised(res.trace)
          /\ FirstFailing(stock, params) > Len(ClaimedOrder)

(* C18: the filters are applied per instrument in the order price range,
   volume minimum, sector, market cap, P/E, RSI, MACD, VWAP; the first
   enabled filter that fails eliminates the instrument and nothing of a
   later filter is evaluated for it: no metadata is looked up or fetched
   after a price or volume failure, no indicator is computed after a
   failure of a metadata filter. *)
C18_FiltersInOrderFailFast ==
    /\ \A r \in ScreenIds : \A sym \in SeqRange(Universe) :
          screens[r].results[sym].ret # "pending" =>
            FailsFast(market[sym], screens[r].params,
                      screens[r].results[sym])
    /\ \A w \in 1..Len(pool.threads) :
          pool.threads[w].pc = "fetch_info" =>
            /\ FirstFailing(market[pool.threads[w].task[2]],
                            screens[pool.threads[w].task[1]].params) > 2
            /\ IsPrefix(pool.threads[w].trace,
                        AllowedTrace(market[pool.threads[w].task[2]],
                                     screens[pool.threads[w].task[1]].params))

(* with every filter on, a symbol that fails the sector and the RSI filter
   was eliminated by the sector filter, after the metadata lookup and
   before any indicator *)
C18_Witness ==
    /\ market["B"] = Symbol("bars", "ok", {"sector", "rsi"}, "none")
    /\ screens[1].params.enabled = SeqRange(ClaimedOrder)
    /\ screens[1].results["B"].ret = "None"
    /\ screens[1].results["B"].trace = << "price", "volume", "info", "sector" >>

----------------------------------------------------------------------------
(* process_single_stock returns a record for the symbol *)
Survives(stock, params) ==
    /\ stock.bars = "bars"
    /\ stock.throws # "metrics"
    /\ stock.throws \notin params.enabled
    /\ \A f \in params.enabled : f \in stock.fails => f \in params.any

(* C19: a failure while one instrument is evaluated (fetch error, fewer than
   2 bars, exception in a filter) yields no result for that instrument only:
   the task of every other instrument runs to its end, its result, if it
   survives the filters, is in the returned list, and the request
   succeeds. *)
C19_FailureIsolated ==
    \A r \in ScreenIds :
       /\ \A sym \in SeqRange(Universe) :
             screens[r].results[sym].ret # "pending" =>
               (screens[r].results[sym].ret = "record"
                  <=> Survives(market[sym], screens[r].params))
       /\ screens[r].pc = "done" =>
             /\ \A sym \in SeqRange(Universe) :
                   /\ screens[r].results[sym].ret # "pending"
                   /\ sym \in SeqRange(screens[r].response)
                        <=> Survives(market[sym], screens[r].params)
             /\ Len(screens[r].response)
                  = Cardinality(SeqRange(screens[r].response))

(* the download of B raised, A is the response *)
C19_Witness ==
    /\ screens[1].pc = "done"
    /\ market["B"].bars = "raises"
    /\ screens[1].results["B"].ret = "None"
    /\ screens[1].response = << "A" >>

----------------------------------------------------------------------------
(* C20: at every moment at most max_workers evaluations are executing, and
   so at most max_workers fetches are under way, however many tasks the
   requests being served have dispatched; every dispatched task
   nevertheless runs to its end. *)
C20_BoundedWorkers ==
    /\ [](/\ Len(pool.threads) <= MaxWorkers
          /\ Cardinality({ w \in 1..Len(pool.threads) : Fetching(w) })
               <= MaxWorkers)
    /\ \A r \in ScreenIds : \A sym \in SeqRange(Universe) :
          (screens[r].pc = "waiting")
            ~> (screens[r].results[sym].ret # "pending")

(* every thread of the executor waits for the provider while tasks are
   queued *)
C20_Witness ==
    /\ Len(pool.threads) = MaxWorkers
    /\ \A w \in 1..Len(pool.threads) : Fetching(w)
    /\ Len(pool.queue) >= 2

----------------------------------------------------------------------------
(* the tasks of request r for the symbol: work items in the queue, threads
   evaluating it, and the result once the future has it *)
QueuedFor(r, sym) ==
    Cardinality({ k \in 1..Len(pool.queue) : pool.queue[k] = << r, sym >> })

RunningFor(r, sym) ==
    Cardinality({ w \in 1..Len(pool.threads) :
                    pool.threads[w].task = << r, sym >> })

Finished(r, sym) == screens[r].results[sym].ret # "pending"

Dispatched(r, sym) ==
    QueuedFor(r, sym) + RunningFor(r, sym) + (IF Finished(r, sym) THEN 1 ELSE 0)

Ascending(v) ==
    \A i, j \in 1..Len(v) : i < j => SymbolBefore(v[i], v[j])

(* C21: a screening request dispatches exactly one task per instrument of
   the universe; it returns only after every one of these tasks has
   finished; what it returns are the surviving instruments, in ascending
   order of their symbols, every symbol at most once, whatever the order in
   which the tasks finished. *)
C21_FanOutJoinSort ==
    \A r \in ScreenIds : \A sym \in SeqRange(Universe) :
       /\ screens[r].pc = "idle" => Dispatched(r, sym) = 0
       /\ screens[r].pc \in {"waiting", "done"} => Dispatched(r, sym) = 1
       /\ screens[r].pc = "done" =>
             /\ Finished(r, sym)
             /\ Ascending(screens[r].response)
             /\ sym \in SeqRange(screens[r].response)
                  <=> Survives(market[sym], screens[r].params)
       /\ screens[r].pc # "done" => screens[r].response = << >>

(* the first request has returned A before B, both dispatched in the order
   B, A, while tasks of the second request are still queued or running *)
C21_Witness ==
    /\ screens[1].pc = "done"
    /\ screens[1].response = << "A", "B" >>
    /\ screens[2].pc = "waiting"
    /\ \E sym \in SeqRange(Universe) : ~ Finished(2, sym)

----------------------------------------------------------------------------
(* the provider has at least two bars for the symbol *)
SufficientHistory(stock) == stock.bars = "bars"

(* the numeric fields of a record that are not indicator fields carry what
   the provider gave, a number *)
ProviderValues(rec) ==
    /\ rec.current_price = "Close"
    /\ rec.volume = "Volume"
    /\ rec.market_cap = "marketCap"
    /\ rec.pe_ratio = "trailingPE"

(* C22: screening with every filter disabled returns a record for every
   instrument of the universe that has sufficient history, and the numeric
   fields of the record are valid values, none of them a fallback; no
   instrument with sufficient history is eliminated. *)
C22_NoFiltersReturnsAll ==
    \A r \in ScreenIds :
       screens[r].pc = "done" /\ screens[r].params = NoFilters =>
         \A sym \in SeqRange(Universe) :
            SufficientHistory(market[sym]) =>
              /\ sym \in SeqRange(screens[r].response)
              /\ screens[r].results[sym].ret = "record"
              /\ ProviderValues(screens[r].results[sym].record)

----------------------------------------------------------------------------
(* what the fills add to the cash; the size of a fill is signed, negative
   for a sale *)
RECURSIVE FillCash(_)
FillCash(fills) ==
    IF fills = << >> THEN 0
    ELSE FillCash(Tail(fills)) - Head(fills).size * Head(fills).price

(* what the fills add to the position of feed d *)
RECURSIVE FillSize(_, _)
FillSize(fills, d) ==
    IF fills = << >> THEN 0
    ELSE (IF Head(fills).data = d THEN Head(fills).size ELSE 0)
         + FillSize(Tail(fills), d)

InSeq(x, s) == \E k \in 1..Len(s) : s[k] = x

(* C23 as stated: when a FLAT instrument's decision is BUY the quantity is
   floor(cash * allocation / 100 / close) of the cash at that moment; an
   order is only made for a quantity above 0, and then, in the same step,
   the cash is debited by quantity * close and the position is opened at
   the close. *)
C23_BuyDebitedAtClose ==
    pc = "run" =>
      \A k \in 1..Len(obs.orders) :
         LET o == obs.orders[k]
         IN  o.isbuy =>
               /\ o.size > 0
               /\ o.size = OrderSize(o.cash_seen, feed, o.data)
               /\ broker.positions[o.data]
                    = [size |-> o.size,
                       cost |-> o.size * LastClose(feed, o.data)]
               /\ broker.cash = obs.orders[1].cash_seen
                                  - o.size * LastClose(feed, o.data)

(* C23 amended: when a FLAT instrument's decision is BUY the quantity is
   floor(cash * allocation / 100 / close) of the broker's cash and the
   current close, and no order is made for a quantity of 0; otherwise a
   market order is submitted and the cash and the position are left as
   they are in that step.  On the next step the order is executed at the
   open of the instrument's bar: the cash is debited by quantity * open and
   the position is opened at the open, or the order is rejected, when
   quantity * open is more than the cash, and changes nothing.  The cash
   and the positions change by the fills of the step and by nothing else. *)
C23_BuyFilledAtNextOpen ==
    [][pc = "run" /\ pc' = "run" =>
         /\ \A k \in 1..Len(obs'.orders) :
               LET o == obs'.orders[k]
               IN  o.isbuy =>
                     /\ o.pos_seen = 0
                     /\ o.size > 0
                     /\ o.size = OrderSize(broker'.cash, feed', o.data)
                     /\ broker'.positions[o.data].size = 0
                     /\ InSeq(Order(o.data, TRUE, o.size,
                                    LastClose(feed', o.data),
                                    feed'[o.data].len),
                              broker'.submitted)
         /\ \A k \in 1..Len(obs'.fills) :
               LET fl == obs'.fills[k]
               IN  fl.isbuy =>
                     /\ fl.price = feed'[fl.data].open
                     /\ fl.cash_after = fl.cash_before - fl.size * fl.price
                     /\ fl.pos_after = fl.pos_before + fl.size
                     /\ \E j \in 1..Len(broker.submitted) :
                           /\ broker.submitted[j].data = fl.data
                           /\ broker.submitted[j].isbuy
                           /\ broker.submitted[j].size = fl.size
         /\ \A j \in 1..Len(broker.submitted) :
               LET o == broker.submitted[j]
               IN  o.isbuy =>
                     \/ \E k \in 1..Len(obs'.fills) :
                           /\ obs'.fills[k].data = o.data
                           /\ obs'.fills[k].isbuy
                           /\ obs'.fills[k].size = o.size
                     \/ /\ InSeq(o, obs'.margins)
                        /\ FillSize(obs'.fills, o.data) = 0
                        /\ o.size * Max(o.price, feed'[o.data].open)
                             > broker.cash + FillCash(obs'.fills)
         /\ broker'.cash = broker.cash + FillCash(obs'.fills)
         /\ \A d \in SeqRange(datas) :
               broker'.positions[d].size
                 = broker.positions[d].size + FillSize(obs'.fills, d)]_vars

(* 4000 shares ordered at a close of 25 with all of the 100000 are bought
   at the next open of 10: the cash goes from 100000 to 60000 *)
C23_Witness ==
    /\ pc = "run"
    /\ \E k \in 1..Len(obs.fills) :
          /\ obs.fills[k].isbuy
          /\ obs.fills[k].size = 4000
          /\ obs.fills[k].price = 10
          /\ obs.fills[k].cash_before = 100000
          /\ obs.fills[k].cash_after = 60000

----------------------------------------------------------------------------
(* the closed-trade notifications of feed d among the events *)
ClosedFor(evs, d) ==
    { k \in 1..Len(evs) : evs[k].data = d /\ evs[k].kind = "closed" }

(* C24 as stated: when a LONG instrument's decision is SELL, in that same
   step the cash is credited by quantity * close, the position becomes 0,
   the trade is closed and one closed-trade notification is counted for
   the instrument. *)
C24_SellCreditedAtClose ==
    pc = "run" =>
      \A k \in 1..Len(obs.orders) :
         LET o == obs.orders[k]
         IN  ~ o.isbuy =>
               /\ o.size = o.pos_seen
               /\ broker.positions[o.data].size = 0
               /\ broker.cash = obs.orders[1].cash_seen
                                  + o.size * LastClose(feed, o.data)
               /\ Cardinality(ClosedFor(obs.trades, o.data)) = 1

(* C24 amended: when a LONG instrument's decision is SELL a market order
   for the whole quantity is submitted, and the cash, the position and the
   counters are left as they are in that step.  On the next step the order
   is executed at the open of the instrument's bar: the cash is credited by
   quantity * open, the position becomes 0, the trade is closed with pnl =
   quantity * open minus what the quantity was bought for, and exactly one
   closed-trade notification is delivered, which adds one to the trade
   count of that instrument and of no other; the count changes in no other
   way. *)
C24_SellFilledAtNextOpen ==
    [][pc = "run" /\ pc' = "run" =>
         /\ \A k \in 1..Len(obs'.orders) :
               LET o == obs'.orders[k]
               IN  ~ o.isbuy =>
                     /\ o.pos_seen > 0
                     /\ o.size = o.pos_seen
                     /\ broker'.positions[o.data].size = o.pos_seen
                     /\ o.cash_seen = broker'.cash
                     /\ Cardinality(ClosedFor(obs'.trades, o.data)) = 0
                     /\ InSeq(Order(o.data, FALSE, o.size,
                                    LastClose(feed', o.data),
                                    feed'[o.data].len),
                              broker'.submitted)
         /\ \A k \in 1..Len(obs'.fills) :
               LET fl == obs'.fills[k]
               IN  ~ fl.isbuy =>
                     /\ fl.price = feed'[fl.data].open
                     /\ fl.pos_before = broker.positions[fl.data].size
                     /\ fl.pos_before = 0 - fl.size
                     /\ fl.pos_after = 0
                     /\ broker'.positions[fl.data].size = 0
                     /\ fl.cash_after = fl.cash_before + fl.pos_before * fl.price
                     /\ \A j \in ClosedFor(obs'.trades, fl.data) :
                           obs'.trades[j].pnl
                             = fl.pos_before * fl.price
                                 - broker.positions[fl.data].cost
                     /\ \E j \in 1..Len(broker.submitted) :
                           /\ broker.submitted[j].data = fl.data
                           /\ ~ broker.submitted[j].isbuy
         /\ \A j \in 1..Len(broker.submitted) :
               ~ broker.submitted[j].isbuy =>
                  \E k \in 1..Len(obs'.fills) :
                     /\ obs'.fills[k].data = broker.submitted[j].data
                     /\ ~ obs'.fills[k].isbuy
         /\ \A d \in SeqRange(datas) :
               /\ Cardinality(ClosedFor(obs'.trades, d))
                    = Cardinality({ k \in 1..Len(obs'.fills) :
                                      /\ obs'.fills[k].data = d
                                      /\ ~ obs'.fills[k].isbuy })
               /\ Cardinality(ClosedFor(obs'.trades, d)) <= 1
               /\ strat'[d].trade_counts
                    = strat[d].trade_counts
                        + Cardinality(ClosedFor(obs'.trades, d))]_vars

(* 4000 shares bought for 40000 are sold at the next open of 50: the cash
   rises by 200000, the trade is closed with a pnl of 160000 and is the
   first trade counted for A *)
C24_Witness ==
    /\ pc = "run"
    /\ \E k \in 1..Len(obs.fills) :
          /\ ~ obs.fills[k].isbuy
          /\ obs.fills[k].data = "A"
          /\ obs.fills[k].price = 50
          /\ obs.fills[k].pos_before = 4000
          /\ obs.fills[k].pos_after = 0
          /\ obs.fills[k].cash_after = obs.fills[k].cash_before + 200000
    /\ obs.trades = << [data |-> "A", kind |-> "closed", pnl |-> 160000] >>
    /\ strat["A"].trade_counts = 1

----------------------------------------------------------------------------
(* C25: the record of a surviving instrument carries 0 in the RSI, MACD and
   VWAP fields whose indicator filter is disabled, and the computed value
   of the indicator in the fields whose filter is enabled. *)
C25_DisabledIndicatorsZero ==
    \A r \in ScreenIds : \A sym \in SeqRange(Universe) :
       screens[r].results[sym].ret = "record" =>
         LET rec == screens[r].results[sym].record
             on == screens[r].params.enabled
         IN  /\ rec.rsi = IF "rsi" \in on THEN "calculate_rsi" ELSE Zero
             /\ rec.macd = IF "macd" \in on THEN "calculate_macd" ELSE Zero
             /\ rec.vwap = IF "vwap" \in on THEN "calculate_vwap" ELSE Zero

----------------------------------------------------------------------------
(* no close of the trailing window is below the close before it: the
   average loss over the window is 0 *)
AvgLossZero(prices, window) ==
    \A i \in 2..Len(prices) :
       i > Len(prices) - window => prices[i] >= prices[i - 1]

(* C26: calculate_rsi returns exactly the neutral value 50.0 whenever the
   average loss over the trailing window is 0, gains or not, or fewer than
   window + 1 closes are there; otherwise it returns a value in [0, 100];
   it never raises. *)
C26_RsiNeutralOrInRange ==
    calc.pc = "returned" =>
      IF Len(calc.prices) < RsiWindow + 1 \/ AvgLossZero(calc.prices, RsiWindow)
      THEN calc.ret = Float(50, 1)
      ELSE /\ calc.ret.den > 0
           /\ 0 <= calc.ret.num
           /\ calc.ret.num <= 100 * calc.ret.den

----------------------------------------------------------------------------
(* the cache without its entry k, and that entry as the most recent one *)
MovedToEnd(cache, k) ==
    SubSeq(cache, 1, k - 1) \o SubSeq(cache, k + 1, Len(cache))
      \o << cache[k] >>

(* no two entries of the cache are for the same arguments *)
OnePerKey(cache) ==
    \A i, j \in 1..Len(cache) :
       cache[i].symbol = cache[j].symbol /\ cache[i].key = cache[j].key
         => i = j

(* what one step may do to a cache: nothing; a hit, which makes an entry
   the most recently used; an insertion below the cap; an insertion at the
   cap, which drops the least recently used entry and no other; a
   cache_clear, which is a step of clear_screening_cache *)
CacheStep(old, new) ==
    \/ new = old
    \/ \E k \in 1..Len(old) : new = MovedToEnd(old, k)
    \/ /\ Len(old) < MaxSize
       /\ Len(new) = Len(old) + 1
       /\ new = Append(old, new[Len(new)])
    \/ /\ Len(old) = MaxSize
       /\ Len(new) = MaxSize
       /\ new = Append(Tail(old), new[Len(new)])
       /\ ~ Cached(old, new[Len(new)].symbol, new[Len(new)].key)
    \/ /\ new = << >>
       /\ clearer' # clearer

(* C27: each of the two caches holds at most maxsize entries, one per key;
   an insertion at the cap evicts the least recently used entry; entries
   leave a cache only by that eviction or by clear_screening_cache, and
   the passing of time, into another bucket or not, removes nothing.  A
   task that is taken from the queue and finds the bars of its symbol in
   the cache makes that entry the most recently used one. *)
C27_BoundedLruCaches ==
    /\ [](/\ Len(caches.data) <= MaxSize
          /\ Len(caches.info) <= MaxSize
          /\ OnePerKey(caches.data)
          /\ OnePerKey(caches.info))
    /\ [][/\ CacheStep(caches.data, caches'.data)
          /\ CacheStep(caches.info, caches'.info)
          /\ now' # now => caches' = caches
          /\ /\ Len(pool'.queue) < Len(pool.queue)
             /\ Cached(caches.data, Head(pool.queue)[2], get_cache_key(now))
             => /\ caches'.data[Len(caches'.data)].symbol = Head(pool.queue)[2]
                /\ caches'.data[Len(caches'.data)].key = get_cache_key(now)]_vars

(* the bars cache is full after the bucket has rolled over and nothing was
   cleared: it still holds an entry of the old bucket, its most recent
   entry is of the new one, and the entry the first request used for A has
   been evicted *)
C27_Witness ==
    /\ clearer = [IdleClearer EXCEPT !.calls = MaxClears - 1]
    /\ Len(caches.data) = MaxSize
    /\ caches.data[1].key # get_cache_key(now)
    /\ caches.data[MaxSize].key = get_cache_key(now)
    /\ screens[1].results["A"].ret # "pending"
    /\ ~ Cached(caches.data, "A", get_cache_key(screens[1].results["A"].at))


----------------------------------------------------------------------------
(* the percentages of the allocations handed to the strategy, summed over
   the feeds of the run *)
AllocationsUsed ==
    SumOver(datas, [d \in SeqRange(datas) |->
                       IF d \in DOMAIN allocations THEN allocations[d] ELSE 0])

(* C28: in every accepted portfolio request whose downloads succeeded, the
   allocations handed to the strategy give every listed instrument its
   listed percentage and sum to 100 within 0.01, and cerebro holds one data
   feed per listed instrument, also when a ticker is listed more than
   once. *)
C28_AllocationsCoverEveryListed ==
    pc \in {"run", "done"} =>
        /\ \A k \in 1..Len(request.stocks) :
              /\ request.stocks[k].ticker \in DOMAIN allocations
              /\ allocations[request.stocks[k].ticker]
                    = request.stocks[k].allocation
        /\ ~ (Abs(AllocationsUsed - HundredPct) > Tolerance)
        /\ Len(datas) = Len(request.stocks)


----------------------------------------------------------------------------
(* the provider has no bars for the symbol: the download raises or gives an
   empty frame, and get_cached_stock_data returns None *)
NoData(sym) == market[sym].bars \in {"raises", "empty"}

(* threads that wait for the provider's answer to the call named by pc *)
Waiting(pl, what) ==
    { w \in 1..Len(pl.threads) : pl.threads[w].pc = what }

(* a call of the provider ends in this step: its result, whatever it is,
   is in the cache afterwards under the arguments of the call *)
FetchKept ==
    /\ \A w \in Waiting(pool, "fetch_data") \ Waiting(pool', "fetch_data") :
          Cached(caches'.data, pool.threads[w].task[2], pool.threads[w].key)
    /\ \A w \in Waiting(pool, "fetch_info") \ Waiting(pool', "fetch_info") :
          Cached(caches'.info, pool.threads[w].task[2], pool.threads[w].key)

(* a task is taken from the queue in this step while the cache has an entry
   for its symbol and the bucket of the clock: no download is started, and
   the lookup of a symbol without data returns None from the cache *)
HitNoFetch ==
    (/\ Len(pool'.queue) < Len(pool.queue)
     /\ Cached(caches.data, Head(pool.queue)[2], get_cache_key(now)))
    => /\ Waiting(pool', "fetch_data") \subseteq Waiting(pool, "fetch_data")
       /\ NoData(Head(pool.queue)[2]) =>
             LET res == screens'[Head(pool.queue)[1]]
                           .results[Head(pool.queue)[2]]
             IN  /\ res.ret = "None"
                 /\ res.reused # 0
                 /\ Waiting(pool', "fetch_info")
                       \subseteq Waiting(pool, "fetch_info")

(* C29: a download that failed or gave no data is kept by the cache like
   one that gave bars (and so is a failed metadata lookup): when the call
   ends its result is in the cache under (symbol, bucket), and every lookup
   that starts while that entry is in the cache is answered from it, with
   'no data' for a symbol without data, and starts no download.  Entries
   leave the cache only by eviction or cache_clear, so lookups of one symbol
   that follow one another within a bucket start at most one download. *)
C29_FailedFetchCached == [][FetchKept /\ HitNoFetch]_vars

(* a lookup of a symbol without data was answered from the cache *)
C29_Witness ==
    \E r \in ScreenIds : \E sym \in SeqRange(Universe) :
       /\ NoData(sym)
       /\ screens[r].results[sym].ret = "None"
       /\ screens[r].results[sym].reused # 0


----------------------------------------------------------------------------
(* the sum over the instruments of a field of their performance entries *)
SumOfPerformances(field) ==
    SumOver(datas, [d \in SeqRange(datas) |->
                       result.stock_performances[d][field]])

(* C30: in the result of a portfolio backtest total_trades is the sum of
   winning_trades and losing_trades and the number of closed trades, every
   instrument's trades is the sum of its winning_trades and losing_trades,
   and the aggregate total, winning and losing counts are the sums of the
   instruments' counts. *)
C30_TradeCountersConsistent ==
    pc = "done" =>
      /\ result.total_trades = result.winning_trades + result.losing_trades
      /\ result.total_trades =
            SumOver(datas, [d \in SeqRange(datas) |-> Len(obs.pnls[d])])
      /\ \A d \in SeqRange(datas) :
            result.stock_performances[d].trades
               = result.stock_performances[d].winning_trades
                   + result.stock_performances[d].losing_trades
      /\ result.total_trades = SumOfPerformances("trades")
      /\ result.winning_trades = SumOfPerformances("winning_trades")
      /\ result.losing_trades = SumOfPerformances("losing_trades")


----------------------------------------------------------------------------
(* the cost of the BUY fills among the first k fills of the last broker
   run *)
RECURSIVE BuyCost(_, _)
BuyCost(fills, k) ==
    IF k = 0 THEN 0
    ELSE BuyCost(fills, k - 1)
           + (IF fills[k].isbuy THEN fills[k].size * fills[k].price ELSE 0)

(* what the SELL fills among the first k fills brought in; the size of a
   SELL fill is negative *)
RECURSIVE SellProceeds(_, _)
SellProceeds(fills, k) ==
    IF k = 0 THEN 0
    ELSE SellProceeds(fills, k - 1)
           + (IF fills[k].isbuy THEN 0
              ELSE (0 - fills[k].size) * fills[k].price)

(* C31: the cash of the broker is never negative.  Instruments that signal
   BUY in the same step each size their order from the same cash at the
   close; the orders are filled at the next open, where the broker fills an
   opening order only if the cash left is not negative, so every BUY fill
   costs no more than the cash in front of it and the fills of a step
   together cost no more than the cash the step started with plus what the
   SELL fills of the step brought in. *)
C31_CashNeverNegative ==
    /\ broker.cash >= 0
    /\ \A k \in 1..Len(obs.fills) :
          /\ obs.fills[k].cash_before >= 0
          /\ obs.fills[k].cash_after >= 0
          /\ obs.fills[k].isbuy =>
                obs.fills[k].size * obs.fills[k].price
                   <= obs.fills[k].cash_before
    /\ obs.fills # << >> =>
          BuyCost(obs.fills, Len(obs.fills))
             <= obs.fills[1].cash_before
                  + SellProceeds(obs.fills, Len(obs.fills))

(* two instruments signalled BUY in the same step with allocations of 60 %
   and 40 % of the same cash; at the next open the first order was filled
   and the second, which the cash left did not cover, was rejected *)
C31_Witness ==
    /\ pc = "run"
    /\ Len(request.stocks) = 2
    /\ Len(obs.fills) = 1
    /\ obs.fills[1].isbuy
    /\ obs.fills[1].cash_before = initial_cash
    /\ Len(obs.margins) = 1
    /\ obs.margins[1].isbuy
    /\ obs.margins[1].data # obs.fills[1].data
    /\ obs.margins[1].size * feed[obs.margins[1].data].open > broker.cash
    /\ broker.cash >= 0

====
